---- MODULE Spec2Model ----
(***************************************************************************)
(* Model of the web-search-mcp orchestration layer:                        *)
(*   - BrowserPool          (src/src/browser-pool.ts)                      *)
(*   - BraveApiRateLimiter  (src/src/brave-api-rate-limiter.ts)            *)
(*   - SearchEngine.search, assessResultQuality and the browser backends   *)
(*                          (src/src/search-engine.ts)                     *)
(*   - GarbageCollector     (src/src/search-engine.ts)                     *)
(*   - EnhancedContentExtractor (src/unnamed/part_001)                     *)
(* Each component has its own specification (SpecPool, SpecQuota,          *)
(* SpecSearch, SpecComponents, SpecReaper, SpecExtract, SpecSession,       *)
(* SpecBulk, SpecBulkWhole, SpecAssess, SpecKill, SpecLifecycle); the     *)
(* variables of the other components stay at their initial values.         *)
(* SpecManaged runs the sweeps of the GarbageCollector beside a pool that  *)
(* holds a browser.                                                        *)
(*                                                                         *)
(* Calls to the pool and to the limiter are counted and capped (MaxCalls,   *)
(* MaxExecutes) so that every behaviour is finite.                         *)
(*                                                                         *)
(* Asynchronous functions are modelled at the granularity of the event     *)
(* loop: the code between two awaits of external I/O is one atomic step,   *)
(* and the reactions of a settled promise run in the same step as the      *)
(* settlement (they are microtasks of the same drain).                     *)
(***************************************************************************)
EXTENDS Integers, Sequences, FiniteSets, TLC

\* ------------------------------------------------------------------------
\* Bounds of the model
\* ------------------------------------------------------------------------
NumCallers == 2
MaxLaunches == 3
MaxCalls == 2
MaxComponentCalls == 3
MaxResults == 3
NumClients == 2
MaxExecutes == 2
MaxMonth == 2
maxRequestsPerMonth == 2
NumOthers == 2
MaxBulk == 2
MaxInputs == 12
MaxTarget == 7
MaxAssessed == 2
MaxStarts == 2
MaxSweeps == 4

\* ------------------------------------------------------------------------
\* Program constants
\* ------------------------------------------------------------------------
MAX_CONTEXTS_PER_BROWSER == 50
maxProcessAgeMs == 1800000
defaultMaxContentLength == 500000
lowQualityLength == 100
maxCandidates == 10
killWaitMs == 1000

Callers == 1..NumCallers
BrowserIds == 1..MaxLaunches
NoBrowser == 0

VARIABLES
  \* ---- BrowserPool fields
  browser,               \* this.browser: NoBrowser or the id of a launched browser
  browserLaunchPromise,  \* this.browserLaunchPromise: NoBrowser or the id of the pending launch
  contextCount,          \* this.contextCount
  \* ---- the browser-automation engine
  launchCount,           \* number of launchBrowser() invocations so far
  launchState,           \* per launch: "none", "pending", "resolved", "rejected"
  connected,             \* per browser: browser.isConnected()
  closeCalled,           \* per browser: browser.close() has been called
  contextsOpened,        \* per browser: number of browser.newContext() calls on it
  \* ---- the callers of the pool (one async call each at a time)
  pc,                    \* position of the caller's current call
  op,                    \* "none", "getBrowser", "getContext", "closeAll"
  stale,                 \* the browser passed to safeCloseBrowser by this call
  awaited,               \* the launch promise this call awaits
  result,                \* the browser the getBrowser call resolved to
  \* ---- observations about the current call of each caller
  arrivedDuring,         \* launch that was in flight when the call arrived
  didLaunch,             \* the call invoked launchBrowser()
  startBrowser,          \* this.browser when the call arrived
  startFull,             \* the browser had issued MAX_CONTEXTS_PER_BROWSER contexts on arrival
  calls,                 \* number of calls made to the pool so far
  \* ---- SearchEngine.search: one call
  sPc,                   \* "idle", "loop", "done", "rejected"
  enableQualityCheck,    \* ENABLE_RELEVANCE_CHECKING !== 'false'
  qualityThreshold,      \* RELEVANCE_THRESHOLD, a fraction <<numerator, denominator>>
  forceMultiEngine,      \* FORCE_MULTI_ENGINE_SEARCH === 'true'
  hasQueryWords,         \* the sanitized query has a word longer than 3 characters
  idx,                   \* loop index i (1-based)
  bestResults,
  bestEngine,
  bestQuality,
  attempts,              \* the backend attempts made so far, in order
  ret,                   \* the value search resolved with
  retPath,               \* which return statement produced it
  \* ---- BraveApiRateLimiter fields
  sinceLastRequest,      \* Date.now() - this.lastRequestTime (ms), counted up to minIntervalMs
  monthlyUsage,          \* this.monthlyUsage: NoUsage (null) or [month, count]
  initialized,           \* this.initialized
  \* ---- the environment of the limiter
  usageFile,             \* the persisted record: NoUsage (missing or corrupt) or [month, count]
  currentMonth,          \* the month of the wall clock
  \* ---- the clients of the limiter (one execute call each at a time)
  qpc,                   \* position of the client's execute call
  loadMonth,             \* currentMonth as read by the client's loadUsage()
  sleepLeft,             \* what is left of the client's sleep (ms)
  pendingWrite,          \* the record the client's saveUsage() is writing
  fnCalls,               \* number of invocations of fn by the client's current call
  executes,              \* number of execute() calls made so far
  \* ---- the two components that hold a BrowserPool
  browserPool,           \* per component: the BrowserPool instance in this.browserPool
  poolBrowser,           \* per pool instance: its this.browser
  poolLaunching,         \* per pool instance: the browser its pending launch will give
  poolContextCount,      \* per pool instance: its this.contextCount
  launchesStarted,       \* number of browser launches started by all pools
  openBrowsers,          \* the browser processes that are open
  waiting,               \* per component: its getContext() calls that await a launch
  sessions,              \* per component and browser: its open contexts
  componentCalls,        \* number of getContext() calls made by the components
  \* ---- the process table seen by the GarbageCollector
  alive,                 \* the pids of the running processes
  etime,                 \* per pid: elapsed time of the process in seconds
  cmd,                   \* per pid: what the command line of the process contains
  \* ---- GarbageCollector.runGC: one sweep at a time
  gcPc,                  \* "idle", "listing", "killWait"
  gcList,                \* chromeProcesses: per pid, the ProcessInfo listed for it
  gcVictim,              \* the pid killProcess is waiting on
  gcSignalled,           \* the pids killProcess was called with by the sweep
  gcKilled,              \* the counter `killed` of the sweep
  \* ---- GarbageCollector.killAllPlaywrightChromes: one sweep at a time
  emPc,                  \* "idle", "listing", "killWait"
  emList,                \* pids: the pids kept by the filter of line 674
  emVictim,
  emSignalled,           \* the pids killProcess was called with by the sweep
  \* ---- EnhancedContentExtractor.extractContent: one call
  xPc,                   \* "idle", "axios", "browser", "returned", "rejected"
  xMaxContentLength,     \* options.maxContentLength, or Undefined
  xJsHeavyUrl,           \* options.url contains one of the hosts of lines 225-230
  xHostJsHeavy,          \* the host of options.url is one of these hosts
  xAxiosText,            \* parseContent(response.data) of the lightweight path
  xAxiosError,           \* the error the lightweight path failed with (line 44)
  xBrowserText,          \* parseContent(html) of the rendered path
  xTier,                 \* the path that produced the returned text
  xRet,                  \* the text extractContent resolved with
  xError,                \* the error extractContent rejected with
  \* ---- the function that works in a session of the BrowserPool
  sessOp,                \* "none" or the function
  sessPc,                \* "idle", "getContext", an awaited call, "close", "catchClose",
                         \* "resolved", "rejected"
  sessAcquired,          \* getContext has resolved with a context
  sessCloseCalls,        \* number of calls of close() on that context
  \* ---- EnhancedContentExtractor.extractContentForResults: one call
  bPc,                   \* "idle", "running", "returned"
  bResults,              \* the argument `results`
  bTargetCount,          \* the argument `targetCount`
  bItems,                \* per processed result: its extraction and its record
  bRet,                  \* the records the call returned
  \* ---- SearchEngine.assessResultQuality: one call
  aResults,              \* the argument `results`: titles and descriptions
  aQuery,                \* the argument `query`
  aScore,                \* the score returned, a fraction, or NoScore
  \* ---- GarbageCollector.killProcess: the loop of one sweep
  kPc,                   \* "idle", "call", "waiting", "checked", "done"
  kQueue,                \* the pids killProcess is still to be called for
  kRunning,              \* the processes that run
  kElapsed,              \* time since SIGTERM was sent (ms), up to the wait
  kLog,                  \* per pid: the calls of process.kill, in order
  kSurfaced,             \* the error code a killProcess call rejected with
  \* ---- GarbageCollector.start and stop, and the timers of the event loop
  intervalHandle,        \* this.intervalHandle: NoTimer (null) or the timer installed
  timers,                \* the interval timers that are installed and not cleared
  timersCreated,         \* number of setInterval calls so far
  sweeps,                \* the runGC calls begun by start() and by the timers, in order,
                         \* and whether each has returned
  lastCall               \* the last of start() and stop() that was called, or "none"

poolVars == <<browser, browserLaunchPromise, contextCount, launchCount, launchState,
              connected, closeCalled, contextsOpened, pc, op, stale, awaited, result,
              arrivedDuring, didLaunch, startBrowser, startFull, calls>>

searchVars == <<sPc, enableQualityCheck, qualityThreshold, forceMultiEngine, hasQueryWords,
                idx, bestResults, bestEngine, bestQuality, attempts, ret, retPath>>

quotaVars == <<sinceLastRequest, monthlyUsage, initialized, usageFile, currentMonth,
               qpc, loadMonth, sleepLeft, pendingWrite, fnCalls, executes>>

componentVars == <<browserPool, poolBrowser, poolLaunching, poolContextCount,
                   launchesStarted, openBrowsers, waiting, sessions, componentCalls>>

reaperVars == <<alive, etime, cmd, gcPc, gcList, gcVictim, gcSignalled, gcKilled,
                emPc, emList, emVictim, emSignalled>>

xOnlyVars == <<xPc, xMaxContentLength, xJsHeavyUrl, xHostJsHeavy, xAxiosText,
               xAxiosError, xBrowserText, xTier, xRet, xError>>
sessVars == <<sessOp, sessPc, sessAcquired, sessCloseCalls>>
extractVars == <<xOnlyVars, sessVars>>

bulkVars == <<bPc, bResults, bTargetCount, bItems, bRet>>

assessVars == <<aResults, aQuery, aScore>>

killVars == <<kPc, kQueue, kRunning, kElapsed, kLog, kSurfaced>>

lifecycleVars == <<intervalHandle, timers, timersCreated, sweeps, lastCall>>

nonPoolVars == <<searchVars, quotaVars, componentVars, reaperVars, extractVars, bulkVars,
  assessVars, killVars, lifecycleVars>>
nonSearchVars == <<poolVars, quotaVars, componentVars, reaperVars, extractVars, bulkVars,
  assessVars, killVars, lifecycleVars>>
nonQuotaVars == <<poolVars, searchVars, componentVars, reaperVars, extractVars, bulkVars,
  assessVars, killVars, lifecycleVars>>
nonComponentVars == <<poolVars, searchVars, quotaVars, reaperVars, extractVars, bulkVars,
  assessVars, killVars, lifecycleVars>>
nonReaperVars == <<poolVars, searchVars, quotaVars, componentVars, extractVars, bulkVars,
  assessVars, killVars, lifecycleVars>>
nonExtractVars == <<poolVars, searchVars, quotaVars, componentVars, reaperVars, bulkVars,
  assessVars, killVars, lifecycleVars>>
nonBulkVars == <<poolVars, searchVars, quotaVars, componentVars, reaperVars, extractVars,
  assessVars, killVars, lifecycleVars>>
nonAssessVars == <<poolVars, searchVars, quotaVars, componentVars, reaperVars, extractVars,
  bulkVars, killVars, lifecycleVars>>
nonKillVars == <<poolVars, searchVars, quotaVars, componentVars, reaperVars, extractVars,
  bulkVars, assessVars, lifecycleVars>>
nonLifecycleVars == <<poolVars, searchVars, quotaVars, componentVars, reaperVars, extractVars, bulkVars, assessVars, killVars>>

vars == <<poolVars, searchVars, quotaVars, componentVars, reaperVars, extractVars,
          bulkVars, assessVars, killVars, lifecycleVars>>

\* ------------------------------------------------------------------------
\* BrowserPool
\* ------------------------------------------------------------------------
\* The pool right after construction (lines 7-9), or after a first launch
\* and a run of sequential getContext() calls that brought the context count
\* of browser 1 close to the rotation threshold.
WarmCounts == (MAX_CONTEXTS_PER_BROWSER - 2)..MAX_CONTEXTS_PER_BROWSER

InitPoolVars ==
  /\ \/ /\ browser = NoBrowser
        /\ contextCount = 0
        /\ launchCount = 0
        /\ launchState = [b \in BrowserIds |-> "none"]
        /\ connected = [b \in BrowserIds |-> FALSE]
        /\ contextsOpened = [b \in BrowserIds |-> 0]
     \/ /\ browser = 1
        /\ contextCount \in WarmCounts
        /\ launchCount = 1
        /\ launchState = [b \in BrowserIds |-> IF b = 1 THEN "resolved" ELSE "none"]
        /\ connected = [b \in BrowserIds |-> b = 1]
        /\ contextsOpened = [b \in BrowserIds |-> IF b = 1 THEN contextCount ELSE 0]
  /\ browserLaunchPromise = NoBrowser
  /\ calls = 0
  /\ closeCalled = [b \in BrowserIds |-> FALSE]
  /\ pc = [p \in Callers |-> "idle"]
  /\ op = [p \in Callers |-> "none"]
  /\ stale = [p \in Callers |-> NoBrowser]
  /\ awaited = [p \in Callers |-> NoBrowser]
  /\ result = [p \in Callers |-> NoBrowser]
  /\ arrivedDuring = [p \in Callers |-> NoBrowser]
  /\ didLaunch = [p \in Callers |-> FALSE]
  /\ startBrowser = [p \in Callers |-> NoBrowser]
  /\ startFull = [p \in Callers |-> FALSE]

\* getBrowser, line 47: the current browser can be reused
HealthyMutant(b, n) == b # NoBrowser /\ connected[b] /\ n <= MAX_CONTEXTS_PER_BROWSER
Healthy(b, n) == b # NoBrowser /\ connected[b] /\ n < MAX_CONTEXTS_PER_BROWSER

\* getBrowser, line 59: a launch is pending and is shared
LaunchPendingMutant(lp) == FALSE
LaunchPending(lp) == lp # NoBrowser

\* getBrowser, lines 58-66, run without suspension by caller p: share the
\* pending launch or start one and await it
AwaitOrLaunch(p) ==
  IF LaunchPending(browserLaunchPromise)
  THEN /\ pc' = [pc EXCEPT ![p] = "awaitShared"]
       /\ awaited' = [awaited EXCEPT ![p] = browserLaunchPromise]
       /\ UNCHANGED <<browserLaunchPromise, launchCount, launchState, didLaunch>>
  ELSE /\ launchCount < MaxLaunches
       /\ launchCount' = launchCount + 1
       /\ browserLaunchPromise' = launchCount + 1
       /\ launchState' = [launchState EXCEPT ![launchCount + 1] = "pending"]
       /\ didLaunch' = [didLaunch EXCEPT ![p] = TRUE]
       /\ pc' = [pc EXCEPT ![p] = "awaitLaunch"]
       /\ awaited' = [awaited EXCEPT ![p] = launchCount + 1]

\* getBrowser, lines 45-66 up to the first suspension, entered by caller p
GetBrowserEnter(p) ==
  /\ arrivedDuring' = [arrivedDuring EXCEPT ![p] =
        IF browserLaunchPromise # NoBrowser
           /\ launchState[browserLaunchPromise] = "pending"
        THEN browserLaunchPromise ELSE NoBrowser]
  /\ startBrowser' = [startBrowser EXCEPT ![p] = browser]
  /\ startFull' = [startFull EXCEPT ![p] =
        browser # NoBrowser /\ contextCount >= MAX_CONTEXTS_PER_BROWSER]
  /\ IF Healthy(browser, contextCount)
     THEN /\ pc' = [pc EXCEPT ![p] = "returned"]
          /\ result' = [result EXCEPT ![p] = browser]
          /\ UNCHANGED <<browser, browserLaunchPromise, contextCount, launchCount,
                         launchState, closeCalled, stale, awaited, didLaunch>>
     ELSE IF browser # NoBrowser
     THEN \* safeCloseBrowser(this.browser): close() is called, the call suspends
          /\ closeCalled' = [closeCalled EXCEPT ![browser] = TRUE]
          /\ stale' = [stale EXCEPT ![p] = browser]
          /\ pc' = [pc EXCEPT ![p] = "closing"]
          /\ UNCHANGED <<browser, browserLaunchPromise, contextCount, launchCount,
                         launchState, awaited, result, didLaunch>>
     ELSE /\ AwaitOrLaunch(p)
          /\ UNCHANGED <<browser, contextCount, closeCalled, stale, result>>
  /\ UNCHANGED <<connected, contextsOpened>>

\* a caller calls pool.getBrowser()
CallGetBrowser(p) ==
  /\ UNCHANGED nonPoolVars
  /\ pc[p] = "idle"
  /\ calls < MaxCalls
  /\ calls' = calls + 1
  /\ op' = [op EXCEPT ![p] = "getBrowser"]
  /\ GetBrowserEnter(p)

\* a caller calls pool.getContext(persona), line 20
CallGetContext(p) ==
  /\ UNCHANGED nonPoolVars
  /\ pc[p] = "idle"
  /\ calls < MaxCalls
  /\ calls' = calls + 1
  /\ op' = [op EXCEPT ![p] = "getContext"]
  /\ GetBrowserEnter(p)

\* safeCloseBrowser, lines 112-118: a failure of browser.close() is caught
\* and logged, so safeCloseBrowser never rejects
SafeCloseRejectsMutant(closed) == ~closed
SafeCloseRejects(closed) == FALSE

\* getBrowser, lines 54-66: safeCloseBrowser has settled (close succeeded, or
\* failed and was logged); this.browser = null, then share or launch
CloseSettled(p, closed) ==
  /\ UNCHANGED nonPoolVars
  /\ pc[p] = "closing"
  /\ connected' = [connected EXCEPT ![stale[p]] = IF closed THEN FALSE ELSE @]
  /\ IF SafeCloseRejects(closed)
     THEN /\ pc' = [pc EXCEPT ![p] = "rejected"]
          /\ UNCHANGED <<browser, browserLaunchPromise, launchCount, launchState,
                         didLaunch, awaited>>
     ELSE /\ browser' = NoBrowser
          /\ AwaitOrLaunch(p)
  /\ UNCHANGED <<contextCount, closeCalled, contextsOpened, op, stale, result,
                 arrivedDuring, startBrowser, startFull, calls>>

\* getBrowser, lines 69-71: the finally block clears the pending-launch
\* marker, whether the launch `id` resolved or rejected
LaunchPromiseAfterMutant(ok, id) == IF ok THEN NoBrowser ELSE id
LaunchPromiseAfter(ok, id) == NoBrowser

\* getBrowser, lines 66-67: this.contextCount = 0 is reached only when the
\* awaited launch resolved
CountAfterLaunchMutant(ok, n) == 0
CountAfterLaunch(ok, n) == IF ok THEN 0 ELSE n

\* launchBrowser, lines 74-110, and getBrowser, lines 66-71: the pending launch
\* settles; its owner and every caller sharing the promise are resumed
LaunchSettled(ok) ==
  /\ UNCHANGED nonPoolVars
  /\ browserLaunchPromise # NoBrowser
  /\ launchState[browserLaunchPromise] = "pending"
  /\ LET id == browserLaunchPromise
         waiters == {p \in Callers : pc[p] \in {"awaitLaunch", "awaitShared"} /\ awaited[p] = id}
         owners == {p \in waiters : pc[p] = "awaitLaunch"}
     IN /\ launchState' = [launchState EXCEPT ![id] = IF ok THEN "resolved" ELSE "rejected"]
        /\ connected' = [connected EXCEPT ![id] = ok]
        /\ pc' = [p \in Callers |-> IF p \in waiters
                                    THEN (IF ok THEN "returned" ELSE "rejected")
                                    ELSE pc[p]]
        /\ result' = [p \in Callers |-> IF p \in waiters /\ ok THEN id ELSE result[p]]
        /\ IF owners # {}
           THEN /\ browserLaunchPromise' = LaunchPromiseAfter(ok, id)
                /\ browser' = IF ok THEN id ELSE browser
                /\ contextCount' = CountAfterLaunch(ok, contextCount)
           ELSE UNCHANGED <<browser, browserLaunchPromise, contextCount>>
  /\ UNCHANGED <<launchCount, closeCalled, contextsOpened, op, stale, awaited,
                 arrivedDuring, didLaunch, startBrowser, startFull, calls>>

\* the caller of getBrowser() receives the browser (or the rejection)
ClearCall(p) ==
  /\ pc' = [pc EXCEPT ![p] = "idle"]
  /\ op' = [op EXCEPT ![p] = "none"]
  /\ stale' = [stale EXCEPT ![p] = NoBrowser]
  /\ awaited' = [awaited EXCEPT ![p] = NoBrowser]
  /\ result' = [result EXCEPT ![p] = NoBrowser]
  /\ arrivedDuring' = [arrivedDuring EXCEPT ![p] = NoBrowser]
  /\ didLaunch' = [didLaunch EXCEPT ![p] = FALSE]
  /\ startBrowser' = [startBrowser EXCEPT ![p] = NoBrowser]
  /\ startFull' = [startFull EXCEPT ![p] = FALSE]

GetBrowserDone(p) ==
  /\ UNCHANGED nonPoolVars
  /\ op[p] = "getBrowser"
  /\ pc[p] \in {"returned", "rejected"}
  /\ ClearCall(p)
  /\ UNCHANGED <<browser, browserLaunchPromise, contextCount, launchCount,
                 launchState, connected, closeCalled, contextsOpened, calls>>

\* getContext, lines 20-42: resumed with the browser, counts the context and
\* opens it; a rejected getBrowser() propagates
GetContextResume(p) ==
  /\ UNCHANGED nonPoolVars
  /\ op[p] = "getContext"
  /\ pc[p] \in {"returned", "rejected"}
  /\ contextCount' = IF pc[p] = "returned" THEN contextCount + 1 ELSE contextCount
  /\ contextsOpened' = IF pc[p] = "returned"
                       THEN [contextsOpened EXCEPT ![result[p]] = @ + 1]
                       ELSE contextsOpened
  /\ ClearCall(p)
  /\ UNCHANGED <<browser, browserLaunchPromise, launchCount,
                 launchState, connected, closeCalled, calls>>

\* closeAll, lines 120-123: close() is called on the managed browser
CallCloseAll(p) ==
  /\ UNCHANGED nonPoolVars
  /\ pc[p] = "idle"
  /\ browser # NoBrowser
  /\ calls < MaxCalls
  /\ calls' = calls + 1
  /\ op' = [op EXCEPT ![p] = "closeAll"]
  /\ closeCalled' = [closeCalled EXCEPT ![browser] = TRUE]
  /\ stale' = [stale EXCEPT ![p] = browser]
  /\ pc' = [pc EXCEPT ![p] = "closingAll"]
  /\ UNCHANGED <<browser, browserLaunchPromise, contextCount, launchCount, launchState,
                 connected, contextsOpened, awaited, result, arrivedDuring, didLaunch,
                 startBrowser, startFull>>

\* closeAll, line 124: safeCloseBrowser has settled; this.browser = null
CloseAllSettled(p, closed) ==
  /\ UNCHANGED nonPoolVars
  /\ pc[p] = "closingAll"
  /\ connected' = [connected EXCEPT ![stale[p]] = IF closed THEN FALSE ELSE @]
  /\ browser' = IF SafeCloseRejects(closed) THEN browser ELSE NoBrowser
  /\ ClearCall(p)
  /\ UNCHANGED <<browserLaunchPromise, contextCount, launchCount, launchState,
                 closeCalled, contextsOpened, calls>>

\* the browser process dies or its connection drops: isConnected() turns false
Disconnect(b) ==
  /\ UNCHANGED nonPoolVars
  /\ launchState[b] = "resolved"
  /\ connected[b]
  /\ connected' = [connected EXCEPT ![b] = FALSE]
  /\ UNCHANGED <<browser, browserLaunchPromise, contextCount, launchCount, launchState,
                 closeCalled, contextsOpened, pc, op, stale, awaited, result,
                 arrivedDuring, didLaunch, startBrowser, startFull, calls>>

\* ------------------------------------------------------------------------
\* SearchEngine.search
\* ------------------------------------------------------------------------
\* search, lines 37-42: the backends in priority order
approaches == <<"Browser DuckDuckGo", "Browser Bing", "Browser Brave", "Axios DuckDuckGo">>

\* fractions <<numerator, denominator>> with a positive denominator
Geq(a, b) == a[1] * b[2] >= b[1] * a[2]
Gt(a, b) == a[1] * b[2] > b[1] * a[2]
Zero == <<0, 1>>
One == <<1, 1>>
EXCELLENT == <<8, 10>>

\* values of RELEVANCE_THRESHOLD explored (line 30; '0.3' is the default)
QualityThresholds == {<<0, 1>>, <<3, 10>>, <<9, 10>>}

\* A result is represented by whether its lowercased title or description
\* contains a qualifying query word; a result set is a sequence of results.
ResultSets == {[k \in 1..n |-> k <= m] : n \in 0..MaxResults, m \in 0..MaxResults}

\* what a backend attempt can do: throw, or return a result set
Outcomes == {[threw |-> TRUE, results |-> <<>>]}
            \cup {[threw |-> FALSE, results |-> r] : r \in ResultSets}

\* assessResultQuality, lines 282-299
MatchCount(results) == Cardinality({k \in 1..Len(results) : results[k]})
assessResultQuality(results, queryHasWords) ==
  IF Len(results) = 0 THEN Zero
  ELSE IF ~queryHasWords THEN One
  ELSE <<MatchCount(results), Len(results)>>

\* search, line 60
QualityScore(results) ==
  IF enableQualityCheck THEN assessResultQuality(results, hasQueryWords) ELSE One

NoResult == [results |-> <<>>, engine |-> "None"]

InitSearchVars ==
  /\ sPc = "idle"
  /\ enableQualityCheck = TRUE
  /\ qualityThreshold = <<3, 10>>
  /\ forceMultiEngine = FALSE
  /\ hasQueryWords = TRUE
  /\ idx = 1
  /\ bestResults = <<>>
  /\ bestEngine = "None"
  /\ bestQuality = Zero
  /\ attempts = <<>>
  /\ ret = NoResult
  /\ retPath = "none"

\* search, lines 18-46: the call reads its configuration and starts the loop
SearchStart(enable, threshold, force, words) ==
  /\ UNCHANGED nonSearchVars
  /\ sPc = "idle"
  /\ sPc' = "loop"
  /\ enableQualityCheck' = enable
  /\ qualityThreshold' = threshold
  /\ forceMultiEngine' = force
  /\ hasQueryWords' = words
  /\ idx' = 1
  /\ bestResults' = <<>>
  /\ bestEngine' = "None"
  /\ bestQuality' = Zero
  /\ attempts' = <<>>
  /\ UNCHANGED <<ret, retPath>>

\* search, line 64: a result set replaces the best so far
BetterMutant(q, best) == TRUE
Better(q, best) == Gt(q, best)

\* search, line 71: excellent quality, return immediately
ExcellentMutant(q, name) == Geq(q, EXCELLENT) /\ name # "Browser Bing" /\ ~forceMultiEngine
Excellent(q, name) == Geq(q, EXCELLENT) /\ ~forceMultiEngine

\* search, line 77: acceptable quality and not Bing, return immediately
Acceptable(q, name) ==
  Geq(q, qualityThreshold) /\ name # "Browser Bing" /\ ~forceMultiEngine

\* search, lines 95-97: a backend that throws is caught and logged
CatchesBackendErrorMutant == FALSE
CatchesBackendError == TRUE

\* search, line 83: this is the last engine
IsLast(i) == i = Len(approaches)

Return(results, engine, path) ==
  /\ sPc' = "done"
  /\ ret' = [results |-> results, engine |-> engine]
  /\ retPath' = path
  /\ UNCHANGED idx

\* search, lines 48, 98-101: next iteration, or the loop ends and the empty
\* result is returned
Continue ==
  IF idx = Len(approaches)
  THEN Return(<<>>, "None", "fallthrough")
  ELSE /\ idx' = idx + 1
       /\ UNCHANGED <<sPc, ret, retPath>>

\* search, lines 49-97: backend idx settles with outcome out and the loop body
\* runs up to the next backend call or the return
SearchAttempt(out) ==
  /\ UNCHANGED nonSearchVars
  /\ sPc = "loop"
  /\ attempts' = Append(attempts, [name |-> approaches[idx], threw |-> out.threw,
                                   results |-> out.results])
  /\ UNCHANGED <<enableQualityCheck, qualityThreshold, forceMultiEngine, hasQueryWords>>
  /\ LET name == approaches[idx]
         results == out.results
         q == QualityScore(results)
         improves == Better(q, bestQuality)
         newResults == IF improves THEN results ELSE bestResults
         newEngine == IF improves THEN name ELSE bestEngine
         newQuality == IF improves THEN q ELSE bestQuality
     IN IF out.threw
        THEN IF CatchesBackendError
             THEN Continue /\ UNCHANGED <<bestResults, bestEngine, bestQuality>>
             ELSE /\ sPc' = "rejected"
                  /\ UNCHANGED <<idx, ret, retPath, bestResults, bestEngine, bestQuality>>
        ELSE IF Len(results) > 0
        THEN /\ bestResults' = newResults
             /\ bestEngine' = newEngine
             /\ bestQuality' = newQuality
             /\ IF Excellent(q, name)
                THEN Return(results, name, "excellent")
                ELSE IF Acceptable(q, name)
                THEN Return(results, name, "acceptable")
                ELSE IF IsLast(idx)
                THEN IF Geq(newQuality, qualityThreshold) \/ ~enableQualityCheck
                     THEN Return(newResults, newEngine, "best")
                     ELSE IF Len(newResults) > 0
                     THEN Return(newResults, newEngine, "degraded")
                     ELSE Continue
                ELSE Continue
        ELSE Continue /\ UNCHANGED <<bestResults, bestEngine, bestQuality>>

\* the caller has received the result; the engine is ready for the next call
SearchFinish ==
  /\ UNCHANGED nonSearchVars
  /\ sPc \in {"done", "rejected"}
  /\ sPc' = "idle"
  /\ idx' = 1
  /\ bestResults' = <<>>
  /\ bestEngine' = "None"
  /\ bestQuality' = Zero
  /\ attempts' = <<>>
  /\ ret' = NoResult
  /\ retPath' = "none"
  /\ UNCHANGED <<enableQualityCheck, qualityThreshold, forceMultiEngine, hasQueryWords>>

NextSearch ==
  \/ \E enable \in BOOLEAN, threshold \in QualityThresholds, force \in BOOLEAN,
        words \in BOOLEAN : SearchStart(enable, threshold, force, words)
  \/ \E out \in Outcomes : SearchAttempt(out)
  \/ SearchFinish


\* ------------------------------------------------------------------------
\* Properties of SearchEngine.search
\* ------------------------------------------------------------------------
Attempted == 1..Len(attempts)
AttemptOk(k) == ~attempts[k].threw /\ Len(attempts[k].results) > 0
AttemptScore(k) == QualityScore(attempts[k].results)
AttemptValue(k) == [results |-> attempts[k].results, engine |-> approaches[k]]
AllFailedOrEmpty == \A k \in Attempted : ~AttemptOk(k)
ReturnedAt(k) == sPc = "done" /\ Len(attempts) = k /\ ret = AttemptValue(k)
RetScore == IF Len(ret.results) = 0 THEN Zero ELSE QualityScore(ret.results)

\* C4: when every backend attempt throws or returns an empty set, search
\* resolves with ([], "None"); a backend failure never makes search reject
SentinelWhenAllFail ==
  /\ sPc # "rejected"
  /\ (sPc = "done" /\ AllFailedOrEmpty) => ret = NoResult

SentinelWhenAllFailWitness ==
  /\ sPc = "done"
  /\ Len(attempts) = Len(approaches)
  /\ AllFailedOrEmpty
  /\ \E k \in Attempted : attempts[k].threw
  /\ \E k \in Attempted : ~attempts[k].threw
  /\ ret = NoResult

\* C5: the empty sentinel ([], "None") is returned only when every backend
\* failed or returned an empty set (the claim as stated; the code violates it)
SentinelOnlyWhenAllFail ==
  (sPc = "done" /\ ret = NoResult) => AllFailedOrEmpty

\* C6: when the last backend returned a non-empty set, scoring is enabled and
\* no set reached the threshold, search returns the best non-empty set with
\* its engine name, sets scoring 0 included (the claim as stated; the code
\* violates it)
DegradedResultReturned ==
  ( /\ sPc = "done"
    /\ Len(attempts) = Len(approaches)
    /\ AttemptOk(Len(approaches))
    /\ enableQualityCheck
    /\ \A k \in Attempted : AttemptOk(k) => ~Geq(AttemptScore(k), qualityThreshold) )
  => \E k \in Attempted :
        /\ AttemptOk(k)
        /\ ret = AttemptValue(k)
        /\ \A j \in Attempted : AttemptOk(j) => Geq(AttemptScore(k), AttemptScore(j))

\* C7: with forcing off, a backend at any position that returns a non-empty
\* set scoring >= 0.8 ends the search at once: its results and name are
\* returned and no later backend is invoked
ExcellentReturnsImmediately ==
  \A k \in Attempted :
    (~forceMultiEngine /\ AttemptOk(k) /\ Geq(AttemptScore(k), EXCELLENT))
    => ReturnedAt(k)

ExcellentReturnsImmediatelyWitness ==
  /\ ~forceMultiEngine
  /\ enableQualityCheck /\ hasQueryWords
  /\ Len(attempts) = 3
  /\ AttemptOk(2)
  /\ AttemptOk(3) /\ Geq(AttemptScore(3), EXCELLENT)
  /\ ReturnedAt(3)

\* C8: with forcing off, a successful attempt with threshold <= score < 0.8
\* returns immediately if and only if the backend is not the first in
\* priority order (the claim as stated; the code violates it)
BaselineIsFirstBackend ==
  \A k \in Attempted :
    ( /\ ~forceMultiEngine
      /\ AttemptOk(k)
      /\ Geq(AttemptScore(k), qualityThreshold)
      /\ ~Geq(AttemptScore(k), EXCELLENT) )
    => (ReturnedAt(k) <=> k # 1)

\* C9 as stated: the returned set scores at least as high as every result
\* set produced during the call (violated by the acceptable-quality early
\* return)
ReturnsBestOfAll ==
  sPc = "done" => \A k \in Attempted : AttemptOk(k) => Geq(RetScore, AttemptScore(k))

\* C9 amended: a set returned by the excellent-quality early return or by the
\* last-backend branch scores at least as high as every result set produced
\* during the call
ReturnsBestUnlessAcceptable ==
  (sPc = "done" /\ retPath \in {"excellent", "best", "degraded"})
  => \A k \in Attempted : AttemptOk(k) => Geq(RetScore, AttemptScore(k))

ReturnsBestUnlessAcceptableWitness ==
  /\ sPc = "done"
  /\ retPath \in {"best", "degraded"}
  /\ \E j, k \in Attempted :
       /\ j < k /\ AttemptOk(j) /\ AttemptOk(k)
       /\ Gt(AttemptScore(j), AttemptScore(k))
       /\ Gt(AttemptScore(k), Zero)
       /\ ret = AttemptValue(j)

\* ------------------------------------------------------------------------
\* BraveApiRateLimiter
\* ------------------------------------------------------------------------
Clients == 1..NumClients
NoUsage == [month |-> -1, count |-> 0]

\* constructor, lines 23-28: the limiter is built with requestsPerSecond = 1000
requestsPerSecond == 1000
minIntervalMs == IF 1000 % requestsPerSecond = 0 THEN 1000 \div requestsPerSecond
                 ELSE (1000 \div requestsPerSecond) + 1

\* records a previous run can have left in the usage file
StoredUsages == {NoUsage, [month |-> 0, count |-> maxRequestsPerMonth]} \cup
  {[month |-> 1, count |-> c] : c \in 0..maxRequestsPerMonth}

\* Time enters the limiter only through Date.now() - this.lastRequestTime
\* (line 90) and through the length of a sleep (line 95): the model keeps
\* these two durations and lets Tick age them. lastRequestTime = 0 (line 16)
\* is longer ago than any interval.
\* The limiter right after construction (lines 16-21) with any usage file, or
\* right after a first call that was counted and saved.
InitQuotaVars ==
  /\ \/ /\ sinceLastRequest = minIntervalMs
        /\ monthlyUsage = NoUsage
        /\ initialized = FALSE
        /\ usageFile \in StoredUsages
     \/ /\ sinceLastRequest = 0
        /\ monthlyUsage = [month |-> 1, count |-> 1]
        /\ initialized = TRUE
        /\ usageFile = monthlyUsage
  /\ currentMonth = 1
  /\ qpc = [c \in Clients |-> "idle"]
  /\ loadMonth = [c \in Clients |-> 0]
  /\ sleepLeft = [c \in Clients |-> 0]
  /\ pendingWrite = [c \in Clients |-> NoUsage]
  /\ fnCalls = [c \in Clients |-> 0]
  /\ executes = 0

\* loadUsage, lines 43-57: the record read from the file, for the month read
\* at line 41
loadUsage(file, month) ==
  IF file = NoUsage THEN [month |-> month, count |-> 0]
  ELSE IF file.month # month THEN [month |-> month, count |-> 0]
  ELSE file

\* execute, line 80: the monthly limit is reached
LimitReachedMutant(usage) == usage.count > maxRequestsPerMonth
LimitReached(usage) == usage.count >= maxRequestsPerMonth

\* execute, lines 79-102 for client c, run without suspension with the usage
\* record in memory: refuse, sleep, or stamp the time and invoke fn
CheckAndPace(c, usage) ==
  IF LimitReached(usage)
  THEN /\ qpc' = [qpc EXCEPT ![c] = "refused"]
       /\ UNCHANGED <<sinceLastRequest, sleepLeft, fnCalls>>
  ELSE IF sinceLastRequest < minIntervalMs
  THEN /\ qpc' = [qpc EXCEPT ![c] = "sleeping"]
       /\ sleepLeft' = [sleepLeft EXCEPT ![c] = minIntervalMs - sinceLastRequest]
       /\ UNCHANGED <<sinceLastRequest, fnCalls>>
  ELSE /\ qpc' = [qpc EXCEPT ![c] = "fn"]
       /\ sinceLastRequest' = 0
       /\ fnCalls' = [fnCalls EXCEPT ![c] = @ + 1]
       /\ UNCHANGED sleepLeft

\* execute, line 77, and init, lines 68-70: an uninitialized limiter starts
\* reading the usage file; an initialized one goes on to the limit check
ExecuteCall(c) ==
  /\ UNCHANGED nonQuotaVars
  /\ qpc[c] = "idle"
  /\ executes < MaxExecutes
  /\ executes' = executes + 1
  /\ IF ~initialized
     THEN /\ qpc' = [qpc EXCEPT ![c] = "loading"]
          /\ loadMonth' = [loadMonth EXCEPT ![c] = currentMonth]
          /\ UNCHANGED <<sinceLastRequest, sleepLeft, fnCalls>>
     ELSE /\ CheckAndPace(c, monthlyUsage)
          /\ UNCHANGED loadMonth
  /\ UNCHANGED <<monthlyUsage, initialized, usageFile, currentMonth, pendingWrite>>

\* loadUsage, lines 44-57, init, lines 70-71, and execute, lines 79-102: the
\* read of the usage file has settled
UsageLoaded(c) ==
  /\ UNCHANGED nonQuotaVars
  /\ qpc[c] = "loading"
  /\ monthlyUsage' = loadUsage(usageFile, loadMonth[c])
  /\ initialized' = TRUE
  /\ loadMonth' = [loadMonth EXCEPT ![c] = 0]
  /\ CheckAndPace(c, monthlyUsage')
  /\ UNCHANGED <<usageFile, currentMonth, pendingWrite, executes>>

\* execute, lines 95-102: the sleep is over; the time is stamped and fn invoked
SleepDone(c) ==
  /\ UNCHANGED nonQuotaVars
  /\ qpc[c] = "sleeping"
  /\ sleepLeft[c] = 0
  /\ qpc' = [qpc EXCEPT ![c] = "fn"]
  /\ sinceLastRequest' = 0
  /\ fnCalls' = [fnCalls EXCEPT ![c] = @ + 1]
  /\ UNCHANGED <<monthlyUsage, initialized, usageFile, currentMonth,
                 loadMonth, sleepLeft, pendingWrite, executes>>

\* execute, lines 102-105 and 111-114: the usage record after fn has settled
CountedMutant(usage, ok) == [usage EXCEPT !.count = @ + 1]
Counted(usage, ok) == IF ok THEN [usage EXCEPT !.count = @ + 1] ELSE usage

\* execute, lines 102-106 and 111-114: fn has settled; on success the count is
\* incremented and saveUsage starts writing the record, on failure the error
\* is rethrown
FnSettled(c, ok) ==
  /\ UNCHANGED nonQuotaVars
  /\ qpc[c] = "fn"
  /\ monthlyUsage' = Counted(monthlyUsage, ok)
  /\ IF ok
     THEN /\ pendingWrite' = [pendingWrite EXCEPT ![c] = monthlyUsage']
          /\ qpc' = [qpc EXCEPT ![c] = "saving"]
     ELSE /\ qpc' = [qpc EXCEPT ![c] = "failed"]
          /\ UNCHANGED pendingWrite
  /\ UNCHANGED <<sinceLastRequest, initialized, usageFile, currentMonth,
                 loadMonth, sleepLeft, fnCalls, executes>>

\* saveUsage, lines 60-66, and execute, lines 108-110: the write has settled
\* (a failed write is logged and leaves the file as it was)
UsageSaved(c, written) ==
  /\ UNCHANGED nonQuotaVars
  /\ qpc[c] = "saving"
  /\ usageFile' = IF written THEN pendingWrite[c] ELSE usageFile
  /\ pendingWrite' = [pendingWrite EXCEPT ![c] = NoUsage]
  /\ qpc' = [qpc EXCEPT ![c] = "succeeded"]
  /\ UNCHANGED <<sinceLastRequest, monthlyUsage, initialized, currentMonth,
                 loadMonth, sleepLeft, fnCalls, executes>>

\* the caller of execute receives the result or the error
ExecuteDone(c) ==
  /\ UNCHANGED nonQuotaVars
  /\ qpc[c] \in {"succeeded", "failed", "refused"}
  /\ qpc' = [qpc EXCEPT ![c] = "idle"]
  /\ fnCalls' = [fnCalls EXCEPT ![c] = 0]
  /\ UNCHANGED <<sinceLastRequest, monthlyUsage, initialized, usageFile, currentMonth,
                 loadMonth, sleepLeft, pendingWrite, executes>>

\* the wall clock advances by one millisecond
Tick ==
  /\ UNCHANGED nonQuotaVars
  /\ sinceLastRequest < minIntervalMs \/ \E c \in Clients : sleepLeft[c] > 0
  /\ sinceLastRequest' = IF sinceLastRequest < minIntervalMs
                         THEN sinceLastRequest + 1 ELSE sinceLastRequest
  /\ sleepLeft' = [c \in Clients |-> IF sleepLeft[c] > 0 THEN sleepLeft[c] - 1 ELSE 0]
  /\ UNCHANGED <<monthlyUsage, initialized, usageFile, currentMonth,
                 qpc, loadMonth, pendingWrite, fnCalls, executes>>

\* the wall clock passes the end of the month
MonthRollover ==
  /\ UNCHANGED nonQuotaVars
  /\ currentMonth < MaxMonth
  /\ currentMonth' = currentMonth + 1
  /\ UNCHANGED <<sinceLastRequest, monthlyUsage, initialized, usageFile,
                 qpc, loadMonth, sleepLeft, pendingWrite, fnCalls, executes>>

\* the process restarts while no call is running: a new limiter is constructed
\* (lines 16-21), the usage file stays
Restart ==
  /\ UNCHANGED nonQuotaVars
  /\ \A c \in Clients : qpc[c] = "idle"
  /\ initialized
  /\ sinceLastRequest' = minIntervalMs
  /\ monthlyUsage' = NoUsage
  /\ initialized' = FALSE
  /\ UNCHANGED <<usageFile, currentMonth, qpc, loadMonth, sleepLeft, pendingWrite, fnCalls, executes>>

NextQuota ==
  \/ \E c \in Clients : ExecuteCall(c)
  \/ \E c \in Clients : UsageLoaded(c)
  \/ \E c \in Clients : SleepDone(c)
  \/ \E c \in Clients, ok \in BOOLEAN : FnSettled(c, ok)
  \/ \E c \in Clients, written \in BOOLEAN : UsageSaved(c, written)
  \/ \E c \in Clients : ExecuteDone(c)
  \/ Tick
  \/ MonthRollover
  \/ Restart

\* ------------------------------------------------------------------------
\* Properties of the BraveApiRateLimiter
\* ------------------------------------------------------------------------
\* C3: the monthly count, in memory and in the persisted record, never
\* exceeds the configured cap (the claim as stated; concurrent calls violate it)
CountWithinCap ==
  /\ monthlyUsage.count <= maxRequestsPerMonth
  /\ usageFile.count <= maxRequestsPerMonth

\* the limit check of line 80 is made in this step by the call of client c,
\* and the usage record it is made on
ChecksLimit(c) ==
  \/ qpc[c] = "idle" /\ qpc'[c] \notin {"idle", "loading"}
  \/ qpc[c] = "loading" /\ qpc'[c] # "loading"
CheckedUsage(c) ==
  IF qpc[c] = "loading" THEN loadUsage(usageFile, loadMonth[c]) ELSE monthlyUsage

\* C12: a call whose limit check finds count >= cap is refused; a refused
\* call has not invoked fn, and the step that refuses it leaves the in-memory
\* count, the persisted record and the time of the last request as they were,
\* as does the delivery of the error to the caller
RefusalLeavesStateUnchanged ==
  [][\A c \in Clients :
       /\ (ChecksLimit(c) /\ CheckedUsage(c).count >= maxRequestsPerMonth)
            => qpc'[c] = "refused"
       /\ (qpc[c] # "refused" /\ qpc'[c] = "refused")
            => /\ CheckedUsage(c).count >= maxRequestsPerMonth
               /\ fnCalls'[c] = 0
               /\ monthlyUsage'.count = CheckedUsage(c).count
               /\ usageFile' = usageFile
               /\ sinceLastRequest' = sinceLastRequest
       /\ (qpc[c] = "refused" /\ qpc'[c] # "refused")
            => /\ qpc'[c] = "idle"
               /\ fnCalls[c] = 0
               /\ monthlyUsage' = monthlyUsage
               /\ usageFile' = usageFile
               /\ sinceLastRequest' = sinceLastRequest]_vars

\* a limiter that has reached its cap by a counted call has refused a call
RefusalLeavesStateUnchangedWitness ==
  \E c \in Clients :
    /\ qpc[c] = "refused"
    /\ initialized
    /\ monthlyUsage.count = maxRequestsPerMonth
    /\ usageFile = monthlyUsage
    /\ fnCalls[c] = 0
    /\ sinceLastRequest < minIntervalMs

\* C13: a call whose fn throws is rejected and changes neither the in-memory
\* count nor the persisted record; a call whose fn succeeds adds exactly 1;
\* an initialized limiter's count grows only by such a success and the
\* persisted record changes only by the write of a successful call
FailedCallsNotCounted ==
  [][/\ \A c \in Clients :
          /\ qpc[c] = "fn" => qpc'[c] \in {"fn", "failed", "saving"}
          /\ (qpc[c] = "fn" /\ qpc'[c] = "failed")
               => (monthlyUsage' = monthlyUsage /\ usageFile' = usageFile)
          /\ (qpc[c] = "fn" /\ qpc'[c] = "saving")
               => monthlyUsage'.count = monthlyUsage.count + 1
          /\ (qpc[c] = "failed" /\ qpc'[c] # "failed")
               => (qpc'[c] = "idle" /\ monthlyUsage' = monthlyUsage
                   /\ usageFile' = usageFile)
     /\ (/\ initialized
         /\ \A c \in Clients : qpc[c] # "loading"
         /\ monthlyUsage'.count > monthlyUsage.count)
          => \E c \in Clients : qpc[c] = "fn" /\ qpc'[c] = "saving"
     /\ usageFile' # usageFile
          => \E c \in Clients : qpc[c] = "saving" /\ qpc'[c] = "succeeded"]_vars

\* after a counted call, a call whose fn threw has left count and file alone
FailedCallsNotCountedWitness ==
  \E c \in Clients :
    /\ qpc[c] = "failed"
    /\ fnCalls[c] = 1
    /\ monthlyUsage.count = 1
    /\ usageFile = monthlyUsage
    /\ \A d \in Clients \ {c} : qpc[d] = "idle"

\* C14: when every execute call has completed, the count a limiter restarted
\* in the same month would load from the persisted record equals the
\* in-memory count (the claim as stated; a failed or overtaken write of
\* saveUsage leaves the record behind)
PersistedEqualsMemory ==
  (/\ \A c \in Clients : qpc[c] = "idle"
   /\ initialized
   /\ monthlyUsage.month = currentMonth)
  => loadUsage(usageFile, currentMonth).count = monthlyUsage.count

\* C15: every call makes its limit check on a usage record of the month in
\* which it is made, whether it has loaded the record or found the limiter
\* initialized
\* (the claim as stated; an initialized limiter never looks at the month)
RolloverResetsCount ==
  [][\A c \in Clients :
       ChecksLimit(c) =>
         monthlyUsage'.month = IF qpc[c] = "loading" THEN loadMonth[c] ELSE currentMonth]_vars

\* C16: when fn is invoked, the previous invocation of fn by any call of the
\* limiter started at least minIntervalMs earlier (the claim as stated; calls
\* that sleep over the same interval wake up together)
PacedInvocations ==
  [][\A c \in Clients :
       fnCalls'[c] > fnCalls[c] => sinceLastRequest >= minIntervalMs]_vars

NextPool ==
  \/ \E p \in Callers : CallGetBrowser(p)
  \/ \E p \in Callers : CallGetContext(p)
  \/ \E p \in Callers, closed \in BOOLEAN : CloseSettled(p, closed)
  \/ \E ok \in BOOLEAN : LaunchSettled(ok)
  \/ \E p \in Callers : GetBrowserDone(p)
  \/ \E p \in Callers : GetContextResume(p)
  \/ \E p \in Callers : CallCloseAll(p)
  \/ \E p \in Callers, closed \in BOOLEAN : CloseAllSettled(p, closed)
  \/ \E b \in BrowserIds : Disconnect(b)

\* ------------------------------------------------------------------------
\* SearchEngine and EnhancedContentExtractor as holders of a BrowserPool
\* ------------------------------------------------------------------------
\* Each pool instance is followed at the granularity of its calls: the
\* single-flight launch of getBrowser and the sessions opened by getContext.
\* Fewer than MAX_CONTEXTS_PER_BROWSER contexts are opened (MaxComponentCalls), so no
\* pool rotates its browser here.
Components == {"SearchEngine", "EnhancedContentExtractor"}
Pools == 1..2

\* SearchEngine constructor, line 15, and EnhancedContentExtractor
\* constructor, line 28: each component constructs a BrowserPool of its own
NewBrowserPool(c) == IF c = "SearchEngine" THEN 1 ELSE 2

InitComponentVars ==
  /\ browserPool = [c \in Components |-> NewBrowserPool(c)]
  /\ poolBrowser = [k \in Pools |-> NoBrowser]
  /\ poolLaunching = [k \in Pools |-> NoBrowser]
  /\ poolContextCount = [k \in Pools |-> 0]
  /\ launchesStarted = 0
  /\ openBrowsers = {}
  /\ waiting = [c \in Components |-> 0]
  /\ sessions = [c \in Components |-> [b \in BrowserIds |-> 0]]
  /\ componentCalls = 0

\* this.browserPool.getContext(persona) called by component c (search-engine.ts
\* lines 120, 162, 205; extractor line 113): the pool of the component hands
\* out a context of its browser, joins its pending launch, or starts a launch
ComponentGetContext(c) ==
  /\ UNCHANGED nonComponentVars
  /\ componentCalls < MaxComponentCalls
  /\ componentCalls' = componentCalls + 1
  /\ LET k == browserPool[c] IN
       IF poolBrowser[k] # NoBrowser
       THEN /\ sessions' = [sessions EXCEPT ![c][poolBrowser[k]] = @ + 1]
            /\ poolContextCount' = [poolContextCount EXCEPT ![k] = @ + 1]
            /\ UNCHANGED <<poolLaunching, launchesStarted, waiting>>
       ELSE IF poolLaunching[k] # NoBrowser
       THEN /\ waiting' = [waiting EXCEPT ![c] = @ + 1]
            /\ UNCHANGED <<poolLaunching, launchesStarted, sessions, poolContextCount>>
       ELSE /\ launchesStarted < MaxLaunches
            /\ launchesStarted' = launchesStarted + 1
            /\ poolLaunching' = [poolLaunching EXCEPT ![k] = launchesStarted']
            /\ waiting' = [waiting EXCEPT ![c] = @ + 1]
            /\ UNCHANGED <<sessions, poolContextCount>>
  /\ UNCHANGED <<browserPool, poolBrowser, openBrowsers>>

\* the getContext() calls that await the launch of pool k
WaitingOn(k) ==
  (IF browserPool["SearchEngine"] = k THEN waiting["SearchEngine"] ELSE 0)
  + (IF browserPool["EnhancedContentExtractor"] = k
     THEN waiting["EnhancedContentExtractor"] ELSE 0)

\* browser-pool.ts, lines 63-70 and 27-40: the launch of pool k has settled;
\* the calls that awaited it count and open their contexts, or are rejected
PoolLaunchSettled(k, ok) ==
  /\ UNCHANGED nonComponentVars
  /\ poolLaunching[k] # NoBrowser
  /\ poolLaunching' = [poolLaunching EXCEPT ![k] = NoBrowser]
  /\ waiting' = [c \in Components |-> IF browserPool[c] = k THEN 0 ELSE waiting[c]]
  /\ IF ok
     THEN LET b == poolLaunching[k]
              joined == {c \in Components : browserPool[c] = k}
          IN /\ openBrowsers' = openBrowsers \cup {b}
             /\ poolBrowser' = [poolBrowser EXCEPT ![k] = b]
             /\ sessions' = [c \in Components |->
                    IF c \in joined THEN [sessions[c] EXCEPT ![b] = @ + waiting[c]]
                    ELSE sessions[c]]
             /\ poolContextCount' = [poolContextCount EXCEPT ![k] = WaitingOn(k)]
     ELSE UNCHANGED <<openBrowsers, poolBrowser, sessions, poolContextCount>>
  /\ UNCHANGED <<browserPool, launchesStarted, componentCalls>>

\* context.close() by component c (search-engine.ts lines 149, 191;
\* extractor lines 173, 179)
SessionClose(c, b) ==
  /\ UNCHANGED nonComponentVars
  /\ sessions[c][b] > 0
  /\ sessions' = [sessions EXCEPT ![c][b] = @ - 1]
  /\ UNCHANGED <<browserPool, poolBrowser, poolLaunching, poolContextCount,
                 launchesStarted, openBrowsers, waiting, componentCalls>>

\* closeAll of component c (search-engine.ts lines 451-453, extractor
\* lines 409-411) and BrowserPool.closeAll: the browser of the component's
\* pool is closed, and its contexts with it
ComponentCloseAll(c) ==
  /\ UNCHANGED nonComponentVars
  /\ LET k == browserPool[c]
         b == poolBrowser[k]
     IN /\ b # NoBrowser
        /\ openBrowsers' = openBrowsers \ {b}
        /\ poolBrowser' = [poolBrowser EXCEPT ![k] = NoBrowser]
        /\ sessions' = [d \in Components |-> [sessions[d] EXCEPT ![b] = 0]]
  /\ UNCHANGED <<browserPool, poolLaunching, poolContextCount, launchesStarted,
                 waiting, componentCalls>>

NextComponents ==
  \/ \E c \in Components : ComponentGetContext(c)
  \/ \E k \in Pools, ok \in BOOLEAN : PoolLaunchSettled(k, ok)
  \/ \E c \in Components, b \in BrowserIds : SessionClose(c, b)
  \/ \E c \in Components : ComponentCloseAll(c)

\* ------------------------------------------------------------------------
\* GarbageCollector (the reaper of leaked browser processes)
\* ------------------------------------------------------------------------
\* The process table holds this process and NumOthers processes that the
\* user of this process may signal. A command line is what the sweeps can
\* tell about it: whether `grep -E "(chrome|chromium)"` matches it, whether
\* it contains 'playwright', and whether it contains the temporary profile
\* path 'user-data-dir=/tmp/playwright' (which contains 'playwright').
Pids == 1..(NumOthers + 1)

\* constructor, line 497: this.myPid = process.pid
myPid == 1

CmdKinds == {k \in [chrome : BOOLEAN, playwright : BOOLEAN, tmpProfile : BOOLEAN] :
               k.tmpProfile => k.playwright}
NoCmd == [chrome |-> FALSE, playwright |-> FALSE, tmpProfile |-> FALSE]

\* proc.cmd.includes(needle), lines 622 and 667
CmdIncludes(c, needle) ==
  IF needle = "playwright" THEN c.playwright
  ELSE IF needle = "user-data-dir=/tmp/playwright" THEN c.tmpProfile
  ELSE FALSE

\* the commands of the other processes: those that `ps | grep` or `pgrep`
\* can list
OtherCmds == {k \in CmdKinds : k.chrome \/ k.playwright}

\* the ages of the processes, in seconds: just under the default max age,
\* the max age, and 40 minutes
maxAgeSeconds == maxProcessAgeMs \div 1000
Ages == {maxAgeSeconds - 1, maxAgeSeconds, 40 * 60}

NoProcessInfo == [listed |-> FALSE, etime |-> 0, cmd |-> NoCmd]

InitReaperVars ==
  /\ alive \in {a \in SUBSET Pids : myPid \in a}
  /\ etime \in [Pids -> Ages \cup {0}]
  /\ cmd \in [Pids -> CmdKinds]
  /\ \A p \in Pids : IF p \in alive
                     THEN etime[p] # 0 /\ (p # myPid => cmd[p] \in OtherCmds)
                     ELSE etime[p] = 0 /\ cmd[p] = NoCmd
  /\ gcPc = "idle"
  /\ gcList = [p \in Pids |-> NoProcessInfo]
  /\ gcVictim = 0
  /\ gcSignalled = {}
  /\ gcKilled = 0
  /\ emPc = "idle"
  /\ emList = {}
  /\ emVictim = 0
  /\ emSignalled = {}

\* runGC, line 556, and killAllPlaywrightChromes, line 674: the pid is the
\* pid of this process
IsOwnPidMutant(pid) == FALSE
IsOwnPid(pid) == pid = myPid

\* isOrphanedChrome, lines 620-632 (ageMinutes > maxProcessAgeMs / 60000,
\* with ageMinutes = etime / 60)
isOrphanedChromeMutant(proc) ==
  IF ~CmdIncludes(proc.cmd, "playwright")
     /\ ~CmdIncludes(proc.cmd, "user-data-dir=/tmp/playwright")
  THEN FALSE
  ELSE proc.etime * 1000 >= maxProcessAgeMs
isOrphanedChrome(proc) ==
  IF ~CmdIncludes(proc.cmd, "playwright")
     /\ ~CmdIncludes(proc.cmd, "user-data-dir=/tmp/playwright")
  THEN FALSE
  ELSE proc.etime * 1000 > maxProcessAgeMs

\* runGC, lines 549-568: killProcess is called for the listed process pid
\* (proc.etime < maxAgeSeconds, with maxAgeSeconds = maxProcessAgeMs / 1000)
GCKills(list, pid) ==
  /\ list[pid].listed
  /\ ~(list[pid].etime * 1000 < maxProcessAgeMs)
  /\ ~IsOwnPid(pid)
  /\ isOrphanedChrome(list[pid])

\* findChromeProcesses, lines 585-615: the ProcessInfo records of the
\* processes whose line of `ps` matches chrome or chromium
findChromeProcesses ==
  [p \in Pids |-> IF p \in alive /\ cmd[p].chrome
                  THEN [listed |-> TRUE, etime |-> etime[p], cmd |-> cmd[p]]
                  ELSE NoProcessInfo]

\* killProcess, lines 637-658, called in turn for the pids of `targets` from
\* pid `from` on while the processes of `running` run: a target that has
\* exited makes process.kill throw ESRCH and the loop goes on; the first
\* running target gets SIGTERM and the caller waits for a second.
\* The pids killProcess is called with:
KillCalls(targets, from, running) ==
  LET rest == {p \in targets : p >= from}
      live == rest \cap running
  IN IF live = {} THEN rest
     ELSE {p \in rest : \A r \in live : p <= r}

\* the running target that got SIGTERM, or 0 when the loop has ended
FirstRunning(targets, from, running) ==
  LET live == {p \in targets : p >= from} \cap running
  IN IF live = {} THEN 0 ELSE CHOOSE p \in live : \A r \in live : p <= r

\* the process table once the process that got SIGTERM has exited at once
\* (exits) or runs on until SIGKILL
Reap(running, pid, exits) ==
  LET left == IF pid # 0 /\ exits THEN running \ {pid} ELSE running
  IN /\ alive' = left
     /\ etime' = [p \in Pids |-> IF p \in left THEN etime[p] ELSE 0]
     /\ cmd' = [p \in Pids |-> IF p \in left THEN cmd[p] ELSE NoCmd]

\* runGC, lines 549-575, from the listed pid `from` on
GCSweepFrom(list, from, running, exits) ==
  LET targets == {p \in Pids : GCKills(list, p)}
      victim == FirstRunning(targets, from, running)
  IN /\ gcSignalled' = gcSignalled \cup KillCalls(targets, from, running)
     /\ gcKilled' = gcKilled + Cardinality(KillCalls(targets, from, running))
     /\ gcVictim' = victim
     /\ gcPc' = IF victim = 0 THEN "idle" ELSE "killWait"
     /\ Reap(running, victim, exits)

\* runGC, lines 538-540 (from start, lines 513 and 517, or called directly):
\* a sweep starts and `ps` is run
GCStart ==
  /\ UNCHANGED nonReaperVars
  /\ gcPc = "idle"
  /\ gcPc' = "listing"
  /\ gcList' = [p \in Pids |-> NoProcessInfo]
  /\ gcSignalled' = {}
  /\ gcKilled' = 0
  /\ UNCHANGED <<alive, etime, cmd, gcVictim, emPc, emList, emVictim, emSignalled>>

\* runGC, lines 540-568: `ps` has settled (a failure gives an empty list,
\* lines 612-614); the loop runs up to the first wait of killProcess
GCListed(ok, exits) ==
  /\ UNCHANGED nonReaperVars
  /\ gcPc = "listing"
  /\ gcList' = IF ok THEN findChromeProcesses ELSE [p \in Pids |-> NoProcessInfo]
  /\ GCSweepFrom(gcList', 1, alive, exits)
  /\ UNCHANGED <<emPc, emList, emVictim, emSignalled>>

\* killProcess, lines 643-651, and runGC, lines 567-575: the second is over;
\* a target that is still running gets SIGKILL, and the loop goes on
GCKillChecked(exits) ==
  /\ UNCHANGED nonReaperVars
  /\ gcPc = "killWait"
  /\ GCSweepFrom(gcList, gcVictim + 1, alive \ {gcVictim}, exits)
  /\ UNCHANGED <<gcList, emPc, emList, emVictim, emSignalled>>

\* killAllPlaywrightChromes, lines 676-681, from the pid `from` on
EmergencySweepFrom(pids, from, running, exits) ==
  LET victim == FirstRunning(pids, from, running)
  IN /\ emSignalled' = emSignalled \cup KillCalls(pids, from, running)
     /\ emVictim' = victim
     /\ emPc' = IF victim = 0 THEN "idle" ELSE "killWait"
     /\ Reap(running, victim, exits)

\* killAllPlaywrightChromes, lines 664-668: an emergency sweep starts and
\* `pgrep -f "playwright"` is run
EmergencyStart ==
  /\ UNCHANGED nonReaperVars
  /\ emPc = "idle"
  /\ emPc' = "listing"
  /\ emList' = {}
  /\ emSignalled' = {}
  /\ UNCHANGED <<alive, etime, cmd, gcPc, gcList, gcVictim, gcSignalled, gcKilled,
                 emVictim>>

\* killAllPlaywrightChromes, lines 670-678: `pgrep` has settled (a failure
\* returns 0, lines 682-684); the pids other than myPid are kept and the loop
\* runs up to the first wait of killProcess
EmergencyListed(ok, exits) ==
  /\ UNCHANGED nonReaperVars
  /\ emPc = "listing"
  /\ emList' = IF ok
               THEN {p \in alive : CmdIncludes(cmd[p], "playwright") /\ ~IsOwnPid(p)}
               ELSE {}
  /\ EmergencySweepFrom(emList', 1, alive, exits)
  /\ UNCHANGED <<gcPc, gcList, gcVictim, gcSignalled, gcKilled>>

\* killProcess, lines 643-651, and killAllPlaywrightChromes, lines 676-681:
\* the second is over; a target that is still running gets SIGKILL, and the
\* loop goes on
EmergencyKillChecked(exits) ==
  /\ UNCHANGED nonReaperVars
  /\ emPc = "killWait"
  /\ EmergencySweepFrom(emList, emVictim + 1, alive \ {emVictim}, exits)
  /\ UNCHANGED <<gcPc, gcList, gcVictim, gcSignalled, gcKilled, emList>>

NextReaper ==
  \/ GCStart
  \/ \E ok, exits \in BOOLEAN : GCListed(ok, exits)
  \/ \E exits \in BOOLEAN : GCKillChecked(exits)
  \/ EmergencyStart
  \/ \E ok, exits \in BOOLEAN : EmergencyListed(ok, exits)
  \/ \E exits \in BOOLEAN : EmergencyKillChecked(exits)

\* ------------------------------------------------------------------------
\* EnhancedContentExtractor.extractContent
\* ------------------------------------------------------------------------
\* A text is known by its length and by where the first bot-detection
\* marker of lines 239-244 ends in it (0: it holds none). The texts are
\* those parseContent (lines 316-368) returns for a response; the extractor
\* is constructed without MAX_CONTENT_LENGTH, so this.maxContentLength is
\* defaultMaxContentLength (line 20).
Undefined == -1
TextLengths == {0, 50, 100, 1000, 10000}
MarkerEnds == {0, 50, 1000}
Texts == {t \in [len : TextLengths, markerEnd : MarkerEnds] : t.markerEnd <= t.len}
NoText == [len |-> 0, markerEnd |-> 0]

\* the values of options.maxContentLength
MaxContentLengths == {Undefined, 0, 50, 1000}

\* An error is known by what the code reads of it: axios.isAxiosError(error),
\* error.code, error.response.status (0: no response), what error.message
\* contains, whether error.response.data is a string or a parsed object, and
\* whether that string contains one of the markers of lines 219-222.
\* The errors axios.get rejects with: a timeout has code ECONNABORTED and a
\* message that contains 'timeout'; a response with a status >= 400 (line 87)
\* carries its body.
AxiosErrors ==
  {e \in [axios : {TRUE},
          code : {"none", "ECONNABORTED"},
          status : {0, 403, 404, 429, 503},
          message : {"other", "timeout", "Access denied", "Forbidden"},
          data : {"none", "string", "object"},
          dataMarker : BOOLEAN] :
     /\ e.status = 0 <=> e.data = "none"
     /\ e.dataMarker => e.data = "string"
     /\ e.status # 0 => e.message = "other"
     /\ e.code = "ECONNABORTED" <=> e.message = "timeout"}
PlainError(message) ==
  [axios |-> FALSE, code |-> "none", status |-> 0, message |-> message,
   data |-> "none", dataMarker |-> FALSE]
NoError == PlainError("none")
\* line 100
LowQualityError == PlainError("Low quality content detected")
\* line 56
BothFailedError == PlainError("Both axios and browser extraction failed")
\* error.response.data.includes is not a function (lines 219-222)
IncludesTypeError == PlainError("includes is not a function")

\* the functions that work in a session of the BrowserPool
SessionOps == {"extractWithBrowser", "tryBrowserDuckDuckGoSearch",
               "tryBrowserBraveSearch", "tryBrowserBingSearch"}
SearchSessionOps == SessionOps \ {"extractWithBrowser"}

InitSessionVars ==
  /\ sessOp = "none"
  /\ sessPc = "idle"
  /\ sessAcquired = FALSE
  /\ sessCloseCalls = 0

InitExtractVars ==
  /\ xPc = "idle"
  /\ xMaxContentLength = Undefined
  /\ xJsHeavyUrl = FALSE
  /\ xHostJsHeavy = FALSE
  /\ xAxiosText = NoText
  /\ xAxiosError = NoError
  /\ xBrowserText = NoText
  /\ xTier = "none"
  /\ xRet = NoText
  /\ xError = NoError
  /\ InitSessionVars

\* content.substring(0, n), line 95
substring(t, n) ==
  [len |-> IF t.len > n THEN n ELSE t.len,
   markerEnd |-> IF t.markerEnd <= n THEN t.markerEnd ELSE 0]

\* extractWithAxios, lines 65 and 93-96: the text cut to the limit in force
Truncate(t, maxContentLength) ==
  LET limit == IF maxContentLength = Undefined THEN defaultMaxContentLength
               ELSE maxContentLength
  IN IF limit # 0 /\ t.len > limit THEN substring(t, limit) ELSE t

\* isLowQualityContent, lines 236-249
isLowQualityContentMutant(t) ==
  \/ t.markerEnd # 0
  \/ t.len = 0
isLowQualityContent(t) ==
  \/ t.len < lowQualityLength
  \/ t.markerEnd # 0
  \/ t.len = 0

\* shouldUseBrowser, lines 206-231: building the array of indicators throws
\* when error.response.data is an object without a method `includes`
shouldUseBrowserThrows(e) == e.data = "object"

\* shouldUseBrowser, lines 204-234
shouldUseBrowser(e, jsHeavyUrl) ==
  \/ e.status \in {403, 429, 503}
  \/ e.message \in {"timeout", "Access denied", "Forbidden", "Low quality content detected"}
  \/ e.dataMarker
  \/ jsHeavyUrl

\* extractContent, lines 34-41, and extractWithAxios, lines 65-88: a call
\* starts with the HTTP fetch; the url contains one of the host names of
\* lines 225-230 (jsHeavyUrl), as its host (hostJsHeavy) or elsewhere
ExtractContentCall(m, jsHeavyUrl, hostJsHeavy) ==
  /\ UNCHANGED nonExtractVars
  /\ xPc = "idle"
  /\ sessPc = "idle"
  /\ hostJsHeavy => jsHeavyUrl
  /\ xPc' = "axios"
  /\ xMaxContentLength' = m
  /\ xJsHeavyUrl' = jsHeavyUrl
  /\ xHostJsHeavy' = hostJsHeavy
  /\ xAxiosText' = NoText
  /\ xAxiosError' = NoError
  /\ xBrowserText' = NoText
  /\ xTier' = "none"
  /\ xRet' = NoText
  /\ xError' = NoError
  /\ sessOp' = "none"
  /\ sessPc' = "idle"
  /\ sessAcquired' = FALSE
  /\ sessCloseCalls' = 0

\* extractWithBrowser, lines 106-113, and the search backends of
\* search-engine.ts, lines 116-120, 158-162 and 201-205: the function asks
\* the pool for a context
SessionBegin(o) ==
  /\ sessOp' = o
  /\ sessPc' = "getContext"
  /\ sessAcquired' = FALSE
  /\ sessCloseCalls' = 0

\* extractContent, lines 44-60: the lightweight path has failed with error e
AxiosFailed(e) ==
  /\ xAxiosError' = e
  /\ IF shouldUseBrowserThrows(e)
     THEN /\ xPc' = "rejected"
          /\ xError' = IncludesTypeError
          /\ UNCHANGED <<xTier, xRet, sessVars>>
     ELSE IF shouldUseBrowser(e, xJsHeavyUrl)
     THEN /\ xPc' = "browser"
          /\ SessionBegin("extractWithBrowser")
          /\ UNCHANGED <<xTier, xRet, xError>>
     ELSE /\ xPc' = "rejected"
          /\ xError' = e
          /\ UNCHANGED <<xTier, xRet, sessVars>>

\* extractWithAxios, lines 90-103, and extractContent, lines 41-60: the fetch
\* has resolved and parseContent has returned t
AxiosResolved(t) ==
  /\ UNCHANGED nonExtractVars
  /\ xPc = "axios"
  /\ xAxiosText' = t
  /\ LET content == Truncate(t, xMaxContentLength)
     IN IF isLowQualityContent(content)
        THEN AxiosFailed(LowQualityError)
        ELSE /\ xPc' = "returned"
             /\ xTier' = "axios"
             /\ xRet' = content
             /\ UNCHANGED <<xError, xAxiosError, sessVars>>
  /\ UNCHANGED <<xMaxContentLength, xJsHeavyUrl, xHostJsHeavy, xBrowserText>>

\* extractWithAxios, line 70, and extractContent, lines 44-60: the fetch has
\* been rejected
AxiosRejected(e) ==
  /\ UNCHANGED nonExtractVars
  /\ xPc = "axios"
  /\ AxiosFailed(e)
  /\ UNCHANGED <<xMaxContentLength, xJsHeavyUrl, xHostJsHeavy, xAxiosText, xBrowserText>>

\* extractContent, lines 51-53: extractWithBrowser has resolved with the
\* text of the rendered page
BrowserResolved ==
  /\ xPc' = "returned"
  /\ xTier' = "browser"
  /\ xRet' = xBrowserText'
  /\ UNCHANGED <<xMaxContentLength, xJsHeavyUrl, xHostJsHeavy, xAxiosText, xAxiosError,
                 xError>>

\* extractContent, lines 54-57: extractWithBrowser has rejected
BrowserRejected ==
  /\ xPc' = "rejected"
  /\ xError' = BothFailedError
  /\ UNCHANGED <<xMaxContentLength, xJsHeavyUrl, xHostJsHeavy, xAxiosText, xAxiosError,
                 xBrowserText, xTier, xRet>>

\* The awaited calls of a session function between getContext and the
\* close of the context, in order. Waits that cannot make the function fail
\* are left out: simulateHumanBehavior and waitForSelector of part_001, lines
\* 159-168, and the waitForSelector of search-engine.ts, lines 135-144 and
\* 177-181. "title" is the catch block of tryBrowserBingSearch, lines 222-234,
\* which awaits page.title() when the selector is not found.
NextStep(o, step) ==
  CASE step = "newPage" -> IF o = "extractWithBrowser" THEN "route" ELSE "goto"
    [] step = "route" -> "goto"
    [] step = "goto" -> IF o = "tryBrowserBingSearch" THEN "title" ELSE "content"
    [] step = "title" -> "content"
    [] step = "content" -> "close"
SessionSteps == {"newPage", "route", "goto", "title", "content"}

\* the function that holds the session has settled: the caller goes on
SessionSettled(ok) ==
  IF sessOp = "extractWithBrowser"
  THEN IF ok THEN BrowserResolved ELSE BrowserRejected
  ELSE UNCHANGED xOnlyVars

\* part_001, line 113, and search-engine.ts, lines 120, 162, 205:
\* getContext has settled; a rejection leaves the function before its try
GetContextSettled(ok) ==
  /\ UNCHANGED nonExtractVars
  /\ sessPc = "getContext"
  /\ IF ok
     THEN /\ sessPc' = "newPage"
          /\ sessAcquired' = TRUE
          /\ UNCHANGED xOnlyVars
     ELSE /\ sessPc' = "rejected"
          /\ UNCHANGED sessAcquired
          /\ xBrowserText' = xBrowserText
          /\ SessionSettled(FALSE)
  /\ UNCHANGED <<sessOp, sessCloseCalls>>

\* part_001, lines 176-179, and search-engine.ts, lines 151-152, 193-195,
\* 241-242: the catch block calls context.close()
CatchCloseMutant(n) == n
CatchClose(n) == n + 1

\* part_001, lines 116-173, and search-engine.ts, lines 123-149, 165-191,
\* 208-239: an awaited call of the try block has settled. When page.content()
\* has resolved, the markup is parsed (for extractWithBrowser to the text t;
\* the parser may throw) and context.close() is called.
StepSettled(outcome, t) ==
  /\ UNCHANGED nonExtractVars
  /\ sessPc \in SessionSteps
  /\ outcome = "parseThrows" => sessPc = "content"
  /\ IF sessOp = "extractWithBrowser" /\ sessPc = "content" /\ outcome = "ok"
     THEN xBrowserText' = t
     ELSE t = NoText /\ xBrowserText' = xBrowserText
  /\ IF outcome = "ok"
     THEN /\ sessPc' = NextStep(sessOp, sessPc)
          /\ sessCloseCalls' = IF sessPc = "content" THEN sessCloseCalls + 1
                               ELSE sessCloseCalls
     ELSE /\ sessPc' = "catchClose"
          /\ sessCloseCalls' = CatchClose(sessCloseCalls)
  /\ UNCHANGED <<sessOp, sessAcquired, xPc, xMaxContentLength, xJsHeavyUrl, xHostJsHeavy,
                 xAxiosText, xAxiosError, xTier, xRet, xError>>

\* part_001, lines 173-181, and search-engine.ts, lines 149-155, 191-198,
\* 239-245: context.close() has settled. A rejection of the close of the try
\* block is caught like every other failure; the outcome of the close of the
\* catch block is ignored and the error is thrown again.
ContextCloseSettled(ok) ==
  /\ UNCHANGED nonExtractVars
  /\ sessPc \in {"close", "catchClose"}
  /\ IF sessPc = "close" /\ ok
     THEN /\ sessPc' = "resolved"
          /\ UNCHANGED sessCloseCalls
          /\ xBrowserText' = xBrowserText
          /\ SessionSettled(TRUE)
     ELSE IF sessPc = "close"
     THEN /\ sessPc' = "catchClose"
          /\ sessCloseCalls' = CatchClose(sessCloseCalls)
          /\ UNCHANGED xOnlyVars
     ELSE /\ sessPc' = "rejected"
          /\ UNCHANGED sessCloseCalls
          /\ xBrowserText' = xBrowserText
          /\ SessionSettled(FALSE)
  /\ UNCHANGED <<sessOp, sessAcquired>>

\* the caller of extractContent receives the text or the error
ExtractDone ==
  /\ UNCHANGED nonExtractVars
  /\ xPc \in {"returned", "rejected"}
  /\ xPc' = "idle"
  /\ xMaxContentLength' = Undefined
  /\ xJsHeavyUrl' = FALSE
  /\ xHostJsHeavy' = FALSE
  /\ xAxiosText' = NoText
  /\ xAxiosError' = NoError
  /\ xBrowserText' = NoText
  /\ xTier' = "none"
  /\ xRet' = NoText
  /\ xError' = NoError
  /\ sessOp' = "none"
  /\ sessPc' = "idle"
  /\ sessAcquired' = FALSE
  /\ sessCloseCalls' = 0

NextExtract ==
  \/ \E m \in MaxContentLengths, j, h \in BOOLEAN : ExtractContentCall(m, j, h)
  \/ \E t \in Texts : AxiosResolved(t)
  \/ \E e \in AxiosErrors : AxiosRejected(e)
  \/ \E ok \in BOOLEAN : GetContextSettled(ok)
  \/ \E o \in {"ok", "rejected", "parseThrows"}, t \in Texts : StepSettled(o, t)
  \/ \E ok \in BOOLEAN : ContextCloseSettled(ok)
  \/ ExtractDone

\* search-engine.ts, lines 116-120, 158-162, 201-205: a browser-based search
\* backend is called
SessionStart(o) ==
  /\ UNCHANGED nonExtractVars
  /\ xPc = "idle"
  /\ sessPc = "idle"
  /\ SessionBegin(o)
  /\ UNCHANGED xOnlyVars

\* search-engine.ts, line 55: the caller of the backend receives the results
\* or the error
SessionDone ==
  /\ UNCHANGED nonExtractVars
  /\ sessOp \in SearchSessionOps
  /\ sessPc \in {"resolved", "rejected"}
  /\ sessOp' = "none"
  /\ sessPc' = "idle"
  /\ sessAcquired' = FALSE
  /\ sessCloseCalls' = 0
  /\ UNCHANGED xOnlyVars

NextSession ==
  \/ NextExtract
  \/ \E o \in SearchSessionOps : SessionStart(o)
  \/ SessionDone

\* ------------------------------------------------------------------------
\* EnhancedContentExtractor.extractContentForResults
\* ------------------------------------------------------------------------
\* A search result is known by its position in `results` (id) and by what
\* the code reads of its url: whether isPdfUrl holds for it (line 255) and
\* whether it contains one of the host names of lines 225-230.
UrlKinds == {[pdf |-> FALSE, jsHeavy |-> FALSE],
             [pdf |-> TRUE, jsHeavy |-> FALSE],
             [pdf |-> FALSE, jsHeavy |-> TRUE]}
Result(i, k) == [id |-> i, pdf |-> k.pdf, jsHeavy |-> k.jsHeavy]

\* the result lists of the concurrent model: up to MaxBulk results, at most
\* one of them a PDF, and only the first one on a host of lines 225-230
BulkResults ==
  UNION {{[i \in 1..n |-> Result(i, f[i])] :
            f \in {g \in [1..n -> UrlKinds] :
                     /\ Cardinality({i \in 1..n : g[i].pdf}) <= 1
                     /\ \A i \in 2..n : ~g[i].jsHeavy}}
         : n \in 0..MaxBulk}

Min(a, b) == IF a < b THEN a ELSE b
Max(a, b) == IF a > b THEN a ELSE b

\* array.slice(0, n) for n >= 0
slice(s, n) == SubSeq(s, 1, Min(Len(s), n))

\* results.filter(result => !isPdfUrl(result.url)), line 255
nonPdfResults(results) == SelectSeq(results, LAMBDA r : ~r.pdf)

\* line 256; targetCount is a count: an integer that is not negative
resultsToProcessMutant(results, targetCount) ==
  slice(nonPdfResults(results), Min(targetCount, maxCandidates))
resultsToProcess(results, targetCount) ==
  slice(nonPdfResults(results), Min(targetCount * 2, maxCandidates))

\* getSpecificErrorMessage, lines 386-407
getSpecificErrorMessage(e) ==
  IF e.axios
  THEN IF e.code = "ECONNABORTED" THEN "Request timeout"
       ELSE IF e.status = 403 THEN "403 Forbidden - Access denied"
       ELSE IF e.status = 404 THEN "404 Not found"
       ELSE IF e.status # 0 THEN "HTTP status: message"
       ELSE "Network error: message"
  ELSE e.message

\* line 270
OuterTimeoutError == PlainError("Content extraction timeout")

\* the record of the map callback: lines 277-284, and lines 287-295
NoRecord == [id |-> 0, fetchStatus |-> "pending", fullContent |-> "", error |-> "none"]
SuccessRecord(r) ==
  [id |-> r.id, fetchStatus |-> "success", fullContent |-> "text", error |-> "none"]
FailureRecordMutant(r, e) ==
  [id |-> r.id, fetchStatus |-> "success", fullContent |-> "text",
   error |-> getSpecificErrorMessage(e)]
FailureRecord(r, e) ==
  [id |-> r.id, fetchStatus |-> "error", fullContent |-> "",
   error |-> getSpecificErrorMessage(e)]

\* lines 303-310
enhancedResults(allResults, targetCount) ==
  LET successfulResults == SelectSeq(allResults, LAMBDA r : r.fetchStatus = "success")
      failedResults == SelectSeq(allResults, LAMBDA r : r.fetchStatus = "error")
  IN slice(slice(successfulResults, targetCount)
           \o slice(failedResults, Max(0, targetCount - Len(successfulResults))),
           targetCount)

\* One entry per processed result: where its map callback is ("axios" or
\* "browser" while it awaits the race of line 273, "done" once it has
\* returned its record), the error its lightweight path failed with, how the
\* race was settled ("resolved" or "rejected" by extractContent, "timeout" by
\* the outer timer), the record, where the extractContent call of line 263
\* itself is ("axios", "browser", or "settled"), and whether its
\* extractWithBrowser holds a context of the pool (line 113) that it has not
\* closed yet (lines 173 and 179).
NewItem == [pc |-> "axios", fetch |-> NoError, settled |-> "pending", record |-> NoRecord,
            call |-> "axios", context |-> FALSE]

InitBulkVars ==
  /\ bPc = "idle"
  /\ bResults = <<>>
  /\ bTargetCount = 0
  /\ bItems = <<>>
  /\ bRet = <<>>

\* the outcomes of the HTTP fetch of one result: a text that passes the
\* quality check, a text that does not, or a rejection
BulkAxiosErrors ==
  {e \in AxiosErrors : /\ e.data # "object" /\ ~e.dataMarker
                       /\ e.status \in {0, 403, 404}
                       /\ e.message \in {"other", "timeout"}}
BulkAxiosOutcomes == {NoError, LowQualityError} \cup BulkAxiosErrors

\* Promise.all, line 300, and lines 303-313: once every callback has
\* returned its record the call returns
AllDone(items) == \A i \in 1..Len(items) : items[i].pc = "done"
AllResults(items) == [i \in 1..Len(items) |-> items[i].record]
BulkSettle(items) ==
  /\ bItems' = items
  /\ IF AllDone(items)
     THEN /\ bPc' = "returned"
          /\ bRet' = enhancedResults(AllResults(items), bTargetCount)
     ELSE UNCHANGED <<bPc, bRet>>
  /\ UNCHANGED <<bResults, bTargetCount>>

\* lines 251-273: the call starts the extraction of every processed result
\* and the outer timer of each
BulkCall(results, targetCount) ==
  /\ UNCHANGED nonBulkVars
  /\ bPc = "idle"
  /\ bResults' = results
  /\ bTargetCount' = targetCount
  /\ LET items == [i \in 1..Len(resultsToProcess(results, targetCount)) |-> NewItem]
     IN /\ bItems' = items
        /\ bPc' = IF AllDone(items) THEN "returned" ELSE "running"
        /\ bRet' = <<>>

\* the processed result of item i
ItemResult(i) == resultsToProcess(bResults, bTargetCount)[i]

\* the race of line 273 is still open for a call at this position
RaceOpenMutant(p) == p = "axios"
RaceOpen(p) == p \in {"axios", "browser"}

\* extractContent, lines 40-60: where the call is once its fetch has settled
\* with outcome o
CallAfterAxios(o, jsHeavy) ==
  IF o = NoError THEN "settled"
  ELSE IF shouldUseBrowserThrows(o) THEN "settled"
  ELSE IF shouldUseBrowser(o, jsHeavy) THEN "browser"
  ELSE "settled"

\* Promise.race, line 273: the timer that settled the race does not stop the
\* extractContent call, which runs on with nobody awaiting it
Abandoned(item) == item.settled = "timeout"

\* extractContent, lines 40-60, for item i: the fetch has settled with
\* outcome o (NoError: a text that is returned)
ItemAxiosSettled(i, o) ==
  /\ UNCHANGED nonBulkVars
  /\ bPc \in {"running", "returned"}
  /\ i \in 1..Len(bItems)
  /\ bItems[i].call = "axios"
  /\ LET r == ItemResult(i)
         item == [bItems[i] EXCEPT !.call = CallAfterAxios(o, r.jsHeavy)]
     IN BulkSettle([bItems EXCEPT ![i] =
          IF Abandoned(item)
          THEN item
          ELSE IF o = NoError
          THEN [item EXCEPT !.pc = "done", !.settled = "resolved",
                            !.record = SuccessRecord(r)]
          ELSE IF shouldUseBrowserThrows(o)
          THEN [item EXCEPT !.pc = "done", !.fetch = o, !.settled = "rejected",
                            !.record = FailureRecord(r, IncludesTypeError)]
          ELSE IF shouldUseBrowser(o, r.jsHeavy)
          THEN [item EXCEPT !.pc = "browser", !.fetch = o]
          ELSE [item EXCEPT !.pc = "done", !.fetch = o, !.settled = "rejected",
                            !.record = FailureRecord(r, o)]])

\* extractWithBrowser, line 113, for item i: getContext has resolved
ItemContextAcquired(i) ==
  /\ UNCHANGED nonBulkVars
  /\ bPc \in {"running", "returned"}
  /\ i \in 1..Len(bItems)
  /\ bItems[i].call = "browser"
  /\ ~bItems[i].context
  /\ BulkSettle([bItems EXCEPT ![i] = [@ EXCEPT !.context = TRUE]])

\* extractContent, lines 50-57, for item i: extractWithBrowser has settled,
\* with the text of the page after closing its context (line 173), or with
\* an error: of getContext, or of a later step after closing the context
\* (line 179)
ItemBrowserSettled(i, ok) ==
  /\ UNCHANGED nonBulkVars
  /\ bPc \in {"running", "returned"}
  /\ i \in 1..Len(bItems)
  /\ bItems[i].call = "browser"
  /\ ok => bItems[i].context
  /\ LET r == ItemResult(i)
         item == [bItems[i] EXCEPT !.call = "settled", !.context = FALSE]
     IN BulkSettle([bItems EXCEPT ![i] =
          IF Abandoned(item)
          THEN item
          ELSE IF ok
          THEN [item EXCEPT !.pc = "done", !.settled = "resolved",
                            !.record = SuccessRecord(r)]
          ELSE [item EXCEPT !.pc = "done", !.settled = "rejected",
                            !.record = FailureRecord(r, BothFailedError)]])

\* lines 269-273 and 285-295: the outer timer of item i fires before its
\* extractContent call has settled
ItemTimeout(i) ==
  /\ UNCHANGED nonBulkVars
  /\ bPc = "running"
  /\ i \in 1..Len(bItems)
  /\ RaceOpen(bItems[i].pc)
  /\ BulkSettle([bItems EXCEPT ![i] =
       [@ EXCEPT !.pc = "done", !.settled = "timeout",
                 !.record = FailureRecord(ItemResult(i), OuterTimeoutError)]])

\* the caller of extractContentForResults receives the records; the calls
\* that the outer timers left running are followed up to here
BulkDone ==
  /\ UNCHANGED nonBulkVars
  /\ bPc = "returned"
  /\ bPc' = "idle"
  /\ bResults' = <<>>
  /\ bTargetCount' = 0
  /\ bItems' = <<>>
  /\ bRet' = <<>>

BulkItems == 1..MaxBulk

NextBulk ==
  \/ \E results \in BulkResults, targetCount \in 0..MaxBulk : BulkCall(results, targetCount)
  \/ \E i \in BulkItems, o \in BulkAxiosOutcomes : ItemAxiosSettled(i, o)
  \/ \E i \in BulkItems : ItemContextAcquired(i)
  \/ \E i \in BulkItems, ok \in BOOLEAN : ItemBrowserSettled(i, ok)
  \/ \E i \in BulkItems : ItemTimeout(i)
  \/ BulkDone

\* the outer timer of every item fires unless the race is settled before
BulkFairness == \A i \in BulkItems : WF_vars(ItemTimeout(i))

\* ------------------------------------------------------------------------
\* extractContentForResults from its call to its return, given the results
\* whose extraction succeeds
\* ------------------------------------------------------------------------
\* the result lists: up to MaxInputs results, at most one of them a PDF
WholeResults ==
  UNION {{[i \in 1..n |-> Result(i, [pdf |-> i = p, jsHeavy |-> FALSE])] : p \in 0..n}
         : n \in 0..MaxInputs}

\* the sets of processed results whose extraction succeeds: all but at most
\* two, or at most two
SucceededSets(k) ==
  {S \in SUBSET (1..k) : Cardinality(S) <= 2 \/ k - Cardinality(S) <= 2}

\* lines 251-313 in one step: every extraction of `succeeded` resolves, every
\* other one fails
ExtractAll(results, targetCount, succeeded) ==
  /\ UNCHANGED nonBulkVars
  /\ bPc = "idle"
  /\ bResults' = results
  /\ bTargetCount' = targetCount
  /\ LET toProcess == resultsToProcess(results, targetCount)
         items == [i \in 1..Len(toProcess) |->
                     IF i \in succeeded
                     THEN [NewItem EXCEPT !.pc = "done", !.settled = "resolved",
                                          !.call = "settled",
                                          !.record = SuccessRecord(toProcess[i])]
                     ELSE [NewItem EXCEPT !.pc = "done", !.settled = "timeout",
                                          !.record = FailureRecord(toProcess[i],
                                                                   OuterTimeoutError)]]
     IN /\ succeeded \subseteq 1..Len(toProcess)
        /\ bItems' = items
        /\ bPc' = "returned"
        /\ bRet' = enhancedResults(AllResults(items), targetCount)

NextBulkWhole ==
  \/ /\ bPc = "idle"
     /\ \E results \in WholeResults, targetCount \in 0..MaxTarget :
          \E succeeded \in SucceededSets(Len(resultsToProcess(results, targetCount))) :
            ExtractAll(results, targetCount, succeeded)
  \/ BulkDone

\* ------------------------------------------------------------------------
\* SearchEngine.assessResultQuality on strings
\* ------------------------------------------------------------------------
\* A string is a sequence of characters; the characters are two letters in
\* both cases and the blank.
Lower(c) == CASE c = "A" -> "a" [] c = "B" -> "b" [] OTHER -> c

\* String.prototype.toLowerCase
toLowerCase(s) == [i \in 1..Len(s) |-> Lower(s[i])]

\* String.prototype.includes
includes(s, w) ==
  \E i \in 0..(Len(s) - Len(w)) : \A j \in 1..Len(w) : s[i + j] = w[j]

\* String.prototype.split(/\s+/): the pieces between the runs of blanks; a
\* string that starts or ends with a blank gives an empty first or last piece
RECURSIVE split(_)
split(s) ==
  IF \A i \in 1..Len(s) : s[i] # " " THEN <<s>>
  ELSE LET b == CHOOSE i \in 1..Len(s) :
                  s[i] = " " /\ \A j \in 1..(i - 1) : s[j] # " "
           e == CHOOSE i \in b..Len(s) :
                  /\ \A j \in b..i : s[j] = " "
                  /\ (i = Len(s) \/ s[i + 1] # " ")
       IN <<SubSeq(s, 1, b - 1)>> \o split(SubSeq(s, e + 1, Len(s)))

\* line 286: query.toLowerCase().split(/\s+/).filter(w => w.length > 3)
queryWordsMutant(query) ==
  SelectSeq(split(toLowerCase(query)), LAMBDA w : Len(w) >= 3)
queryWords(query) ==
  SelectSeq(split(toLowerCase(query)), LAMBDA w : Len(w) > 3)

\* lines 291-294: the result matches one of the words
matches(res, words) ==
  \E k \in 1..Len(words) :
    \/ includes(toLowerCase(res.title), words[k])
    \/ includes(toLowerCase(res.description), words[k])

\* assessResultQuality, lines 282-299, as a fraction
assessStrings(results, query) ==
  LET words == queryWords(query)
  IN assessResultQuality([k \in 1..Len(results) |-> matches(results[k], words)],
                         Len(words) > 0)

\* the queries, titles and descriptions explored
AssessQueries ==
  {<<>>, <<"a", "b">>, <<"a", "b", "a">>, <<"a", "b", "a", "b">>,
   <<"A", "b", "A", "B">>, <<" ", "a", "b", " ">>,
   <<"a", "b", " ", "b", "b", "b", "b">>, <<"b", "b", "b", "b", " ", " ", "a", "b", "a", "b">>}
AssessTexts ==
  {<<>>, <<"a", "b", "a">>, <<"b", "A", "B", "a", "b", "a">>, <<"B", "B", "B", "B">>,
   <<"a", "b", " ", "a", "b">>}
AssessResults == [title : AssessTexts, description : {<<>>, <<"a", "b", "a", "b">>}]
AssessResultSets ==
  UNION {[1..n -> AssessResults] : n \in 0..MaxAssessed}

NoScore == <<0, 0>>

InitAssessIdle ==
  /\ aResults = <<>>
  /\ aQuery = <<>>
  /\ aScore = NoScore

\* the arguments of a call of assessResultQuality
InitAssessVars ==
  /\ aResults \in AssessResultSets
  /\ aQuery \in AssessQueries
  /\ aScore = NoScore

\* assessResultQuality, lines 282-299
Assess ==
  /\ UNCHANGED nonAssessVars
  /\ aScore = NoScore
  /\ aScore' = assessStrings(aResults, aQuery)
  /\ UNCHANGED <<aResults, aQuery>>

NextAssess == Assess

\* ------------------------------------------------------------------------
\* GarbageCollector.killProcess, called for each pid of a sweep in turn
\* ------------------------------------------------------------------------
\* the processes a sweep can call killProcess for (lines 556 and 674)
KillPids == Pids \ {myPid}

\* the orders in which a sweep calls killProcess for some of them
KillQueues ==
  {q \in UNION {[1..n -> KillPids] : n \in 1..Cardinality(KillPids)} :
     \A i, j \in 1..Len(q) : i # j => q[i] # q[j]}

InitKillIdle ==
  /\ kPc = "idle"
  /\ kQueue = <<>>
  /\ kRunning = {}
  /\ kElapsed = 0
  /\ kLog = [p \in KillPids |-> <<>>]
  /\ kSurfaced = "none"

\* some of the processes run when the first sweep starts
InitKillVars ==
  /\ kPc = "idle"
  /\ kQueue = <<>>
  /\ kRunning \in SUBSET KillPids
  /\ kElapsed = 0
  /\ kLog = [p \in KillPids |-> <<>>]
  /\ kSurfaced = "none"

\* runGC, lines 549-568, and killAllPlaywrightChromes, lines 676-678: the
\* loop over the pids starts
KillLoopStart(q) ==
  /\ UNCHANGED nonKillVars
  /\ kPc = "idle"
  /\ kPc' = "call"
  /\ kQueue' = q
  /\ kElapsed' = 0
  /\ kLog' = [p \in KillPids |-> <<>>]
  /\ kSurfaced' = "none"
  /\ UNCHANGED kRunning

\* process.kill(pid, signal), lines 640, 646, 648: the call is logged with
\* whether the process ran at that moment and how long after SIGTERM it was
Signal(pid, sig, at) ==
  kLog' = [kLog EXCEPT ![pid] =
             Append(@, [sig |-> sig, running |-> pid \in kRunning, at |-> at])]

\* killProcess, lines 649-657: what killProcess throws when process.kill has
\* thrown the error `code`; both catch blocks swallow every error
Rethrown(code) == "none"

\* killProcess has returned (an error of process.kill is caught), and the
\* loop goes on with the next pid
KillReturns(code) ==
  /\ kQueue' = Tail(kQueue)
  /\ kPc' = IF Tail(kQueue) = <<>> THEN "done" ELSE "call"
  /\ kSurfaced' = IF code = "none" THEN kSurfaced ELSE Rethrown(code)

\* killProcess, lines 638-643: SIGTERM is sent; a process that has exited
\* makes process.kill throw ESRCH
SendTerm ==
  /\ UNCHANGED nonKillVars
  /\ kPc = "call"
  /\ LET pid == Head(kQueue)
     IN /\ Signal(pid, "SIGTERM", 0)
        /\ IF pid \in kRunning
           THEN /\ kPc' = "waiting"
                /\ UNCHANGED <<kQueue, kSurfaced>>
           ELSE KillReturns("ESRCH")
  /\ kElapsed' = 0
  /\ UNCHANGED kRunning

\* line 643: time passes during the wait, in two halves
WaitTick ==
  /\ UNCHANGED nonKillVars
  /\ kPc = "waiting"
  /\ kElapsed < killWaitMs
  /\ kElapsed' = IF kElapsed = 0 THEN killWaitMs \div 2 ELSE killWaitMs
  /\ UNCHANGED <<kPc, kQueue, kRunning, kLog, kSurfaced>>

\* line 646: process.kill(pid, 0) returns
StillAliveMutant(pid) == TRUE
StillAlive(pid) == pid \in kRunning

\* lines 643-651: the wait is over and the liveness of the process is checked
CheckAlive ==
  /\ UNCHANGED nonKillVars
  /\ kPc = "waiting"
  /\ kElapsed = killWaitMs
  /\ LET pid == Head(kQueue)
     IN /\ Signal(pid, "0", kElapsed)
        /\ IF StillAlive(pid)
           THEN /\ kPc' = "checked"
                /\ UNCHANGED <<kQueue, kSurfaced>>
           ELSE KillReturns("ESRCH")
  /\ UNCHANGED <<kRunning, kElapsed>>

\* lines 648-651: SIGKILL is sent; the process may have exited since the check
ForceKill ==
  /\ UNCHANGED nonKillVars
  /\ kPc = "checked"
  /\ LET pid == Head(kQueue)
     IN /\ Signal(pid, "SIGKILL", kElapsed)
        /\ kRunning' = kRunning \ {pid}
        /\ KillReturns(IF pid \in kRunning THEN "none" ELSE "ESRCH")
  /\ UNCHANGED kElapsed

\* a process exits, on SIGTERM or by itself
ProcessExits(pid) ==
  /\ UNCHANGED nonKillVars
  /\ kPc # "idle"
  /\ pid \in kRunning
  /\ kRunning' = kRunning \ {pid}
  /\ UNCHANGED <<kPc, kQueue, kElapsed, kLog, kSurfaced>>

\* the sweep is over
KillLoopDone ==
  /\ UNCHANGED nonKillVars
  /\ kPc = "done"
  /\ kPc' = "idle"
  /\ kQueue' = <<>>
  /\ kElapsed' = 0
  /\ kLog' = [p \in KillPids |-> <<>>]
  /\ kSurfaced' = "none"
  /\ UNCHANGED kRunning

NextKill ==
  \/ \E q \in KillQueues : KillLoopStart(q)
  \/ SendTerm
  \/ WaitTick
  \/ CheckAlive
  \/ ForceKill
  \/ \E pid \in KillPids : ProcessExits(pid)
  \/ KillLoopDone

\* ------------------------------------------------------------------------
\* GarbageCollector.start and stop
\* ------------------------------------------------------------------------
NoTimer == 0

\* constructor, line 491: no timer is installed
InitLifecycleVars ==
  /\ intervalHandle = NoTimer
  /\ timers = {}
  /\ timersCreated = 0
  /\ sweeps = <<>>
  /\ lastCall = "none"

\* start, line 505: the collector is already running
AlreadyRunningMutant(h) == FALSE
AlreadyRunning(h) == h # NoTimer

\* runGC is called: a sweep begins (lines 513 and 517)
BeginSweep(kind, t) ==
  sweeps' = Append(sweeps, [kind |-> kind, timer |-> t, returned |-> FALSE])

\* start, lines 504-522: unless it is running already, the collector begins
\* a sweep at once and installs the interval timer
Start ==
  /\ UNCHANGED nonLifecycleVars
  /\ lastCall' = "start"
  /\ IF AlreadyRunning(intervalHandle)
     THEN UNCHANGED <<intervalHandle, timers, timersCreated, sweeps>>
     ELSE /\ timersCreated < MaxStarts
          /\ Len(sweeps) < MaxSweeps
          /\ timersCreated' = timersCreated + 1
          /\ BeginSweep("immediate", timersCreated + 1)
          /\ timers' = timers \cup {timersCreated + 1}
          /\ intervalHandle' = timersCreated + 1

\* stop, lines 527-533: the timer of this.intervalHandle is cleared
Stop ==
  /\ UNCHANGED nonLifecycleVars
  /\ lastCall' = "stop"
  /\ IF intervalHandle # NoTimer
     THEN /\ timers' = timers \ {intervalHandle}
          /\ intervalHandle' = NoTimer
     ELSE UNCHANGED <<intervalHandle, timers>>
  /\ UNCHANGED <<timersCreated, sweeps>>

\* lines 516-518: an installed timer fires and its callback calls runGC
TimerFires(t) ==
  /\ UNCHANGED nonLifecycleVars
  /\ t \in timers
  /\ Len(sweeps) < MaxSweeps
  /\ BeginSweep("periodic", t)
  /\ UNCHANGED <<intervalHandle, timers, timersCreated, lastCall>>

\* runGC, lines 538-580: a sweep that was begun returns; it never rejects
SweepReturns(k) ==
  /\ UNCHANGED nonLifecycleVars
  /\ k \in 1..Len(sweeps)
  /\ ~sweeps[k].returned
  /\ sweeps' = [sweeps EXCEPT ![k].returned = TRUE]
  /\ UNCHANGED <<intervalHandle, timers, timersCreated, lastCall>>

NextLifecycle ==
  \/ Start
  \/ Stop
  \/ \E t \in 1..MaxStarts : TimerFires(t)
  \/ \E k \in 1..MaxSweeps : SweepReturns(k)

\* ------------------------------------------------------------------------
\* The reaper and the browser of a BrowserPool of this process
\* ------------------------------------------------------------------------
\* chromium.launch (browser-pool.ts, lines 83-102) starts the browser as a
\* process of its own: browser b of the pool runs as process BrowserPid(b).
\* Only the processes of Pids are in the process table.
BrowserPid(b) == myPid + b

\* The command line of a browser started by launchBrowser: the Chrome binary
\* (channel: 'chrome'), run by Playwright with a temporary profile directory
\* named playwright_chromiumdev_profile-*, under /tmp or under another
\* temporary directory.
ManagedCmds == {k \in CmdKinds : k.chrome /\ k.playwright}

\* The pool holds browser 1, launched etime[BrowserPid(1)] seconds ago and
\* connected, after fewer contexts than the rotation threshold or just as
\* many; the other processes of the table are any.
InitManagedBrowser ==
  /\ InitPoolVars
  /\ browser = 1
  /\ InitReaperVars
  /\ BrowserPid(1) \in alive
  /\ cmd[BrowserPid(1)] \in ManagedCmds

\* the browser process has exited: Playwright sees its pipe close and
\* isConnected() turns false
BrowserExited(b) ==
  /\ BrowserPid(b) \in Pids \ alive
  /\ Disconnect(b)

\* the regular sweeps (runGC) beside the pool
NextManaged ==
  \/ GCStart
  \/ \E ok, exits \in BOOLEAN : GCListed(ok, exits)
  \/ \E exits \in BOOLEAN : GCKillChecked(exits)
  \/ \E b \in BrowserIds : BrowserExited(b)

\* ------------------------------------------------------------------------
\* Specifications: one per component, the other components stay idle
\* ------------------------------------------------------------------------
InitIdleQuota == InitQuotaVars /\ ~initialized /\ usageFile = NoUsage
InitIdlePool == InitPoolVars /\ browser = NoBrowser

InitIdleReaper == InitReaperVars /\ alive = {myPid} /\ etime[myPid] = maxAgeSeconds - 1
                  /\ cmd[myPid] = NoCmd
InitIdle == InitIdlePool /\ InitSearchVars /\ InitIdleQuota /\ InitComponentVars
            /\ InitIdleReaper /\ InitExtractVars /\ InitBulkVars
            /\ InitAssessIdle /\ InitKillIdle /\ InitLifecycleVars

InitPool == InitPoolVars /\ InitSearchVars /\ InitIdleQuota /\ InitComponentVars
            /\ InitIdleReaper /\ InitExtractVars /\ InitBulkVars
            /\ InitAssessIdle /\ InitKillIdle /\ InitLifecycleVars
InitSearch == InitIdle
InitQuota == InitIdlePool /\ InitSearchVars /\ InitQuotaVars /\ InitComponentVars
             /\ InitIdleReaper /\ InitExtractVars /\ InitBulkVars
             /\ InitAssessIdle /\ InitKillIdle /\ InitLifecycleVars
InitComponents == InitIdle
InitReaper == InitIdlePool /\ InitSearchVars /\ InitIdleQuota /\ InitComponentVars
              /\ InitReaperVars /\ InitExtractVars /\ InitBulkVars
              /\ InitAssessIdle /\ InitKillIdle /\ InitLifecycleVars
InitExtract == InitIdle
InitSession == InitIdle
InitBulk == InitIdle
InitBulkWhole == InitIdle
InitAssess == InitIdlePool /\ InitSearchVars /\ InitIdleQuota /\ InitComponentVars
              /\ InitIdleReaper /\ InitExtractVars /\ InitBulkVars
              /\ InitAssessVars /\ InitKillIdle /\ InitLifecycleVars
InitKill == InitIdlePool /\ InitSearchVars /\ InitIdleQuota /\ InitComponentVars
            /\ InitIdleReaper /\ InitExtractVars /\ InitBulkVars
            /\ InitAssessIdle /\ InitKillVars /\ InitLifecycleVars
InitLifecycle == InitIdle
InitManaged == InitManagedBrowser /\ InitSearchVars /\ InitIdleQuota /\ InitComponentVars
               /\ InitExtractVars /\ InitBulkVars
               /\ InitAssessIdle /\ InitKillIdle /\ InitLifecycleVars

SpecPool == InitPool /\ [][NextPool]_vars
SpecSearch == InitSearch /\ [][NextSearch]_vars
SpecQuota == InitQuota /\ [][NextQuota]_vars
SpecComponents == InitComponents /\ [][NextComponents]_vars
SpecReaper == InitReaper /\ [][NextReaper]_vars
SpecExtract == InitExtract /\ [][NextExtract]_vars
SpecSession == InitSession /\ [][NextSession]_vars
SpecBulk == InitBulk /\ [][NextBulk]_vars
SpecBulkLive == InitBulk /\ [][NextBulk]_vars /\ BulkFairness
SpecBulkWhole == InitBulkWhole /\ [][NextBulkWhole]_vars
SpecAssess == InitAssess /\ [][NextAssess]_vars
SpecKill == InitKill /\ [][NextKill]_vars
SpecLifecycle == InitLifecycle /\ [][NextLifecycle]_vars
SpecManaged == InitManaged /\ [][NextManaged]_vars

\* ------------------------------------------------------------------------
\* Properties of the BrowserPool
\* ------------------------------------------------------------------------
PendingLaunches == {b \in BrowserIds : launchState[b] = "pending"}
ArrivedInFlight(p) == arrivedDuring[p] # NoBrowser

\* C1: every getBrowser() call that arrives while a launch is in flight
\* resolves to the browser of that launch, as its owner does, and none of
\* these calls invokes launchBrowser again
SingleFlight ==
  \A p \in Callers :
    /\ ArrivedInFlight(p) =>
         /\ ~didLaunch[p]
         /\ pc[p] = "returned" => result[p] = arrivedDuring[p]
         /\ \A q \in Callers :
              (awaited[q] = arrivedDuring[p] /\ pc[q] = "returned" /\ pc[p] = "returned")
              => result[q] = result[p]
    /\ (didLaunch[p] /\ pc[p] = "returned") => result[p] = awaited[p]

SingleFlightWitness ==
  \E p, r \in Callers :
    /\ p # r
    /\ didLaunch[r] /\ pc[r] = "returned"
    /\ arrivedDuring[p] = awaited[r] /\ pc[p] = "returned"
    /\ result[p] = result[r]
    /\ launchCount = awaited[r]

\* C2: at most one launchBrowser call is in flight in every reachable state
AtMostOneLaunchInFlight == Cardinality(PendingLaunches) <= 1

AtMostOneLaunchInFlightWitness ==
  /\ Cardinality(PendingLaunches) = 1
  /\ \E p, q \in Callers :
       /\ pc[p] = "closing"
       /\ pc[q] = "awaitLaunch"
       /\ op[p] = "getContext"

\* C10: a getBrowser() call that arrives when the current browser has issued
\* MAX_CONTEXTS_PER_BROWSER contexts returns a different browser, with the
\* context count at 0 when it returns and close() called on the old browser
RotationAtThreshold ==
  [][\A p \in Callers :
       (pc[p] # "returned" /\ pc'[p] = "returned" /\ startFull'[p])
       => /\ result'[p] # startBrowser'[p]
          /\ contextCount' = 0
          /\ closeCalled'[startBrowser'[p]]]_vars

RotationAtThresholdWitness ==
  \E p \in Callers :
    /\ pc[p] = "returned"
    /\ startFull[p]
    /\ connected[result[p]]
    /\ result[p] # startBrowser[p]
    /\ browser = result[p]
    /\ contextCount = 0
    /\ closeCalled[startBrowser[p]]

\* ------------------------------------------------------------------------
\* Properties of the components that hold a BrowserPool
\* ------------------------------------------------------------------------
\* C11: at most one browser launched on behalf of SearchEngine and
\* EnhancedContentExtractor together is open, and the open sessions of both
\* components belong to that one browser (the claim as stated; the two
\* components hold two pools and open two browsers)
OneSharedBrowser ==
  /\ Cardinality(openBrowsers) <= 1
  /\ \A c, d \in Components : \A b, e \in BrowserIds :
       (sessions[c][b] > 0 /\ sessions[d][e] > 0) => b = e

\* ------------------------------------------------------------------------
\* Properties of the GarbageCollector
\* ------------------------------------------------------------------------
\* C17: neither a regular sweep nor the emergency sweep calls killProcess
\* with the pid of this process, and this process keeps running
NeverSignalsSelf ==
  /\ myPid \notin gcSignalled \cup emSignalled
  /\ myPid \notin emList
  /\ myPid \in alive

\* both sweeps have run to their end and terminated other processes while
\* this process was listed by `ps`, older than the max age and matched by
\* 'playwright'
NeverSignalsSelfWitness ==
  /\ gcPc = "idle" /\ emPc = "idle"
  /\ gcList[myPid].listed
  /\ gcList[myPid].etime * 1000 > maxProcessAgeMs
  /\ CmdIncludes(gcList[myPid].cmd, "user-data-dir=/tmp/playwright")
  /\ CmdIncludes(cmd[myPid], "playwright")
  /\ gcSignalled # {}
  /\ emSignalled # {}

\* C18: a regular sweep calls killProcess only for listed processes whose
\* command line contains the temporary profile path (the claim as stated;
\* a command line that contains 'playwright' anywhere is enough)
OnlyTmpProfileTerminated ==
  \A p \in gcSignalled :
    CmdIncludes(gcList[p].cmd, "user-data-dir=/tmp/playwright")

\* C19: when a regular sweep has ended, a listed process other than this
\* one whose command line contains the temporary profile path has been
\* terminated by the sweep if and only if its listed age is strictly greater
\* than the max age; during the sweep no process at or below the max age is
\* signalled, and a signalled process runs no longer once killProcess is done
AgeRule ==
  \A p \in Pids :
    (/\ gcList[p].listed
     /\ p # myPid
     /\ CmdIncludes(gcList[p].cmd, "user-data-dir=/tmp/playwright"))
    => /\ p \in gcSignalled => gcList[p].etime * 1000 > maxProcessAgeMs
       /\ (gcPc = "idle" /\ gcList[p].etime * 1000 > maxProcessAgeMs)
            => p \in gcSignalled
       /\ (p \in gcSignalled /\ p # gcVictim) => p \notin alive

\* a sweep has ended that terminated a 40-minute-old process and left alone
\* one that is exactly as old as the max age, both with the temporary profile
AgeRuleWitness ==
  /\ gcPc = "idle"
  /\ \E p, q \in Pids \ {myPid} :
       /\ gcList[p].listed /\ gcList[q].listed
       /\ CmdIncludes(gcList[p].cmd, "user-data-dir=/tmp/playwright")
       /\ CmdIncludes(gcList[q].cmd, "user-data-dir=/tmp/playwright")
       /\ gcList[p].etime >= 40 * 60
       /\ gcList[q].etime * 1000 = maxProcessAgeMs
       /\ p \in gcSignalled /\ p \notin alive
       /\ q \notin gcSignalled /\ q \in alive

\* ------------------------------------------------------------------------
\* Properties of EnhancedContentExtractor.extractContent
\* ------------------------------------------------------------------------
\* C20: a call made with maxContentLength m > 0 that resolves returns a text
\* of at most m characters, whichever path produced it, and a text longer
\* than m is returned cut to m characters (the claim as stated; the rendered
\* path does not look at options.maxContentLength)
TruncatedToMaxLength ==
  (xPc = "returned" /\ xMaxContentLength > 0) =>
    LET extracted == IF xTier = "axios" THEN xAxiosText ELSE xBrowserText
    IN /\ xRet.len <= xMaxContentLength
       /\ extracted.len > xMaxContentLength => xRet.len = xMaxContentLength

\* the lightweight path has settled: with a text (resolved) or with an error
\* of the HTTP fetch
AxiosSettled == xPc \notin {"idle", "axios"}
AxiosGaveText == AxiosSettled /\ xAxiosError \notin AxiosErrors

\* C21: when the lightweight path yields a text of under 100 characters, a
\* blank text or a text that contains a challenge marker, that text is not
\* returned: the path fails with the low-quality error and extractContent
\* goes to the rendered path, whose outcome is the outcome of the call
LowQualityEscalates ==
  LET yielded == Truncate(xAxiosText, xMaxContentLength)
  IN (AxiosGaveText /\ (yielded.len < 100 \/ yielded.len = 0 \/ yielded.markerEnd # 0))
     => /\ xAxiosError = LowQualityError
        /\ sessOp = "extractWithBrowser"
        /\ xTier # "axios"
        /\ xPc = "returned" => (xTier = "browser" /\ xRet = xBrowserText)
        /\ xPc = "rejected" => xError = BothFailedError

\* a fetch gave 50 characters without any marker, and the call returned the
\* text of the rendered page
LowQualityEscalatesWitness ==
  /\ xPc = "returned"
  /\ xAxiosText = [len |-> 50, markerEnd |-> 0]
  /\ xMaxContentLength = Undefined
  /\ xAxiosError = LowQualityError
  /\ xTier = "browser"
  /\ xRet.len = 1000
  /\ sessAcquired

\* C22: a lightweight failure for which no escalation indicator holds (status
\* not in {403, 429, 503}, no timeout, no listed substring in the message, no
\* challenge marker in the body, host of the URL not in the JS-heavy list) is
\* rethrown unchanged and no context is asked of the pool; the rendered path
\* is entered only after a lightweight failure for which an indicator holds
\* (the claim as stated; a URL that mentions a listed host elsewhere is
\* escalated, and a parsed-object body makes shouldUseBrowser throw)
RethrowsUnlessIndicated ==
  LET e == xAxiosError
      indicator ==
        \/ e.status \in {403, 429, 503}
        \/ e.message = "timeout"
        \/ e.message \in {"Access denied", "Forbidden", "Low quality content detected"}
        \/ e.dataMarker
        \/ xHostJsHeavy
  IN /\ (AxiosSettled /\ e # NoError /\ ~indicator)
        => (xPc = "rejected" /\ xError = e /\ sessOp = "none")
     /\ sessOp = "extractWithBrowser" => (e # NoError /\ indicator)

\* C23: when a function that obtained a context from the pool has returned
\* or thrown, close() has been called on that context
SessionAlwaysClosed ==
  (sessPc \in {"resolved", "rejected"} /\ sessAcquired) => sessCloseCalls >= 1

\* the Bing backend has thrown after one of its awaited calls failed, with
\* the one call of close() of its catch block
SessionAlwaysClosedWitness ==
  /\ sessOp = "tryBrowserBingSearch"
  /\ sessPc = "rejected"
  /\ sessAcquired
  /\ sessCloseCalls = 1

\* ------------------------------------------------------------------------
\* Properties of EnhancedContentExtractor.extractContentForResults
\* ------------------------------------------------------------------------
Successes(records) == {i \in 1..Len(records) : records[i].fetchStatus = "success"}
Failures(records) == {i \in 1..Len(records) : records[i].fetchStatus = "error"}

\* C24: the call processes the first min(2 * targetCount, 10) results that
\* are not PDFs, and returns exactly min(targetCount, number processed) of
\* their records, every success before every failure, with a failure only
\* when fewer than targetCount extractions succeeded
SelectsTargetCount ==
  bPc = "returned" =>
    LET nonPdf == nonPdfResults(bResults)
        processed == Min(Len(nonPdf), Min(2 * bTargetCount, 10))
        all == AllResults(bItems)
    IN /\ Len(bItems) = processed
       /\ \A i \in 1..Len(bItems) : all[i].id = nonPdf[i].id
       /\ Len(bRet) = Min(bTargetCount, processed)
       /\ \A i \in 1..Len(bRet) : \E j \in 1..Len(all) : bRet[i] = all[j]
       /\ \A i, j \in 1..Len(bRet) : i < j => bRet[i].id # bRet[j].id
       /\ \A i, j \in 1..Len(bRet) :
            (i < j /\ bRet[i].fetchStatus = "error") => bRet[j].fetchStatus = "error"
       /\ Failures(bRet) # {} => Cardinality(Successes(all)) < bTargetCount

\* twelve results with one PDF among the first ten and a target of 6: ten
\* are processed, two succeed, and the six records returned are the two
\* successes followed by four failures
SelectsTargetCountWitness ==
  /\ bPc = "returned"
  /\ Len(bResults) = 12
  /\ \E i \in 1..10 : bResults[i].pdf
  /\ bTargetCount = 6
  /\ Len(bItems) = 10
  /\ Cardinality(Successes(AllResults(bItems))) = 2
  /\ Len(bRet) = 6
  /\ bRet[2].fetchStatus = "success"
  /\ bRet[3].fetchStatus = "error"

\* C25: the call always resolves; a processed URL whose extraction fails
\* (rejected, or cut off by the outer timer) has a record with fetchStatus
\* error, an empty fullContent and an error message; a URL whose extraction
\* resolves has a success record; and the record of a URL does not change
\* when another URL settles
FailuresAreLocal ==
  /\ [](/\ bPc \in {"idle", "running", "returned"}
        /\ (bPc # "idle" /\ AllDone(bItems)) => bPc = "returned"
        /\ \A i \in 1..Len(bItems) :
             LET item == bItems[i]
             IN item.pc = "done" =>
                  /\ item.record.id = ItemResult(i).id
                  /\ item.settled \in {"rejected", "timeout"} =>
                       /\ item.record.fetchStatus = "error"
                       /\ item.record.fullContent = ""
                       /\ item.record.error \notin {"none", ""}
                  /\ item.settled = "resolved" =>
                       /\ item.record.fetchStatus = "success"
                       /\ item.record.error = "none")
  /\ [][bPc = "running" =>
          \A i \in 1..Len(bItems) :
            bItems[i].pc = "done" =>
              /\ bItems'[i].pc = "done"
              /\ bItems'[i].settled = bItems[i].settled
              /\ bItems'[i].record = bItems[i].record]_vars

\* a call has returned two records: the first URL failed and the second
\* one succeeded
FailuresAreLocalWitness ==
  /\ bPc = "returned"
  /\ Len(bItems) = 2
  /\ bItems[1].settled = "rejected"
  /\ bItems[2].settled = "resolved"
  /\ Len(bRet) = 2
  /\ bRet[1].id = bItems[2].record.id /\ bRet[1].fetchStatus = "success"
  /\ bRet[2].id = bItems[1].record.id /\ bRet[2].fetchStatus = "error"

\* the classification of a failed fetch: the 403 message, the 404 message,
\* the timeout message, otherwise the generic network error
Classification(e) ==
  IF e.status = 403 THEN "403 Forbidden - Access denied"
  ELSE IF e.status = 404 THEN "404 Not found"
  ELSE IF e.message = "timeout" THEN "Request timeout"
  ELSE "Network error: message"

\* C26: the record of a URL whose extractContent call rejected after its
\* fetch failed carries the classification of that fetch failure, whether or
\* not the rendered path was tried (the claim as stated; after an escalation
\* the error is the both-failed error, and its message is what the record
\* carries)
ErrorIsFetchClassification ==
  \A i \in 1..Len(bItems) :
    LET item == bItems[i]
    IN (item.pc = "done" /\ item.settled = "rejected" /\ item.fetch \in AxiosErrors)
       => item.record.error = Classification(item.fetch)

\* C27: a call that has started returns, whatever the extractContent calls
\* do: an item whose extraction has not settled is settled by its outer
\* timer, and such an item is reported as a failure
BulkTerminates ==
  /\ (bPc = "running") ~> (bPc = "returned")
  /\ [](\A i \in 1..Len(bItems) :
          bItems[i].settled = "timeout" =>
            /\ bItems[i].pc = "done"
            /\ bItems[i].record.fetchStatus = "error"
            /\ bItems[i].record.error = "Content extraction timeout")

\* a call has returned after the rendered path of one URL stalled: its
\* record is a failure with the message of the outer timer
BulkTerminatesWitness ==
  /\ bPc = "returned"
  /\ \E i \in 1..Len(bItems) :
       /\ bItems[i].settled = "timeout"
       /\ bItems[i].fetch # NoError
       /\ \E j \in 1..Len(bRet) :
            /\ bRet[j] = bItems[i].record
            /\ bRet[j].fetchStatus = "error"

\* ------------------------------------------------------------------------
\* Properties of SearchEngine.assessResultQuality
\* ------------------------------------------------------------------------
\* the words of the query, as the claim has them: the maximal runs of
\* non-blank characters, lowercased; a word qualifies when it is longer than 3
IsWordAt(q, i, j) ==
  /\ i <= j
  /\ \A k \in i..j : q[k] # " "
  /\ (i = 1 \/ q[i - 1] = " ")
  /\ (j = Len(q) \/ q[j + 1] = " ")
Qualifying(q) ==
  {SubSeq(toLowerCase(q), i, j) : <<i, j>> \in
     {ij \in (1..Len(q)) \X (1..Len(q)) : IsWordAt(q, ij[1], ij[2]) /\ ij[2] - ij[1] + 1 > 3}}
Matching(results, q) ==
  {k \in 1..Len(results) :
     \E w \in Qualifying(q) :
       \/ includes(toLowerCase(results[k].title), w)
       \/ includes(toLowerCase(results[k].description), w)}
ScoreAsClaimed(results, q, score) ==
  /\ score[2] > 0 /\ score[1] >= 0 /\ score[1] <= score[2]
  /\ Qualifying(q) = {} => score[1] = score[2]
  /\ Qualifying(q) # {} =>
       score[1] * Len(results) = Cardinality(Matching(results, q)) * score[2]

AttemptedInOrder ==
  /\ [](/\ Len(attempts) <= Len(approaches)
        /\ \A k \in Attempted : attempts[k].name = approaches[k]
        /\ sPc = "loop" => idx = Len(attempts) + 1)
  /\ [][(Len(attempts') = Len(attempts) + 1 /\ attempts'[Len(attempts')].threw)
          => /\ bestResults' = bestResults
             /\ bestEngine' = bestEngine
             /\ bestQuality' = bestQuality
             /\ Len(attempts') < Len(approaches)
                  => (sPc' = "loop" /\ idx' = Len(attempts') + 1)]_vars

\* the second backend threw after the first had given results, and the third
\* backend was attempted with the best results still those of the first
AttemptedInOrderWitness ==
  /\ Len(attempts) = 3
  /\ AttemptOk(1)
  /\ attempts[2].threw
  /\ ~attempts[3].threw /\ Len(attempts[3].results) = 0
  /\ sPc = "loop"
  /\ bestEngine = approaches[1]
  /\ bestResults = attempts[1].results

\* ------------------------------------------------------------------------
\* Properties of GarbageCollector.killProcess
\* ------------------------------------------------------------------------
\* C30: for each pid, SIGTERM is the first signal; SIGKILL is sent only after
\* the wait of one second and only right after a liveness check that found
\* the process running; a process that has exited makes killProcess return
\* without an error, whichever call finds it gone
KillProtocol ==
  /\ kSurfaced = "none"
  /\ \A pid \in KillPids :
       LET log == kLog[pid]
       IN /\ Len(log) >= 1 => (log[1].sig = "SIGTERM" /\ log[1].at = 0)
          /\ \A i \in 1..Len(log) :
               /\ i > 1 => log[i].sig # "SIGTERM"
               /\ log[i].sig = "0" => (i = 2 /\ log[i].at >= 1000 /\ log[1].running)
               /\ log[i].sig = "SIGKILL" =>
                    /\ i = 3
                    /\ log[i].at >= 1000
                    /\ log[2].sig = "0" /\ log[2].running
          /\ (Len(log) >= 1 /\ ~log[Len(log)].running) =>
               (kQueue = <<>> \/ Head(kQueue) # pid)

\* a sweep over two processes is over: one had exited before its SIGTERM,
\* the other one got SIGTERM, the check and SIGKILL
KillProtocolWitness ==
  /\ kPc = "done"
  /\ kSurfaced = "none"
  /\ \E p, q \in KillPids :
       /\ Len(kLog[p]) = 1 /\ ~kLog[p][1].running
       /\ Len(kLog[q]) = 3
       /\ kLog[q][3].sig = "SIGKILL" /\ kLog[q][3].running
       /\ q \notin kRunning

\* ------------------------------------------------------------------------
\* Properties of GarbageCollector.start and stop
\* ------------------------------------------------------------------------
\* C31: at most one interval timer is installed, and it is the one of
\* this.intervalHandle; start() of a stopped collector begins one sweep at
\* once and installs one timer, start() of a running collector begins no
\* sweep and installs nothing; a periodic sweep begins only while the last
\* call was start(), so none begins between stop() and the next start()
ReaperLifecycle ==
  /\ [](/\ Cardinality(timers) <= 1
        /\ timers = IF intervalHandle = NoTimer THEN {} ELSE {intervalHandle})
  /\ [][Start =>
          IF intervalHandle = NoTimer
          THEN /\ Len(sweeps') = Len(sweeps) + 1
               /\ sweeps'[Len(sweeps')].kind = "immediate"
               /\ Cardinality(timers' \ timers) = 1
               /\ timers \subseteq timers'
          ELSE /\ sweeps' = sweeps
               /\ timers' = timers]_vars
  /\ [][(Len(sweeps') > Len(sweeps) /\ sweeps'[Len(sweeps')].kind = "periodic")
          => (lastCall = "start" /\ lastCall' = "start")]_vars
  /\ [][Stop => timers' = {}]_vars

\* the collector was started, swept periodically, was stopped and started
\* again: the first timer is gone and the second one has fired once
ReaperLifecycleWitness ==
  /\ Len(sweeps) = 4
  /\ [k \in 1..4 |-> <<sweeps[k].kind, sweeps[k].timer>>] =
       <<(<<"immediate", 1>>), (<<"periodic", 1>>), (<<"immediate", 2>>), (<<"periodic", 2>>)>>
  /\ timers = {2}
  /\ lastCall = "start"

\* ------------------------------------------------------------------------
\* Properties of a failed launch
\* ------------------------------------------------------------------------
\* the calls that await launch b
AwaitingLaunch(b) ==
  {p \in Callers : pc[p] \in {"awaitLaunch", "awaitShared"} /\ awaited[p] = b}

\* C32: when the launch in flight rejects, every call that awaits it is
\* rejected, the pending-launch marker is cleared, the pool holds no browser
\* and the context count stays what it was; a getBrowser() or getContext()
\* call made while the pool holds neither a browser nor a pending launch
\* starts a launch of its own
FailedLaunchRecovers ==
  /\ [][LaunchSettled(FALSE) =>
          /\ \A p \in AwaitingLaunch(browserLaunchPromise) : pc'[p] = "rejected"
          /\ browserLaunchPromise' = NoBrowser
          /\ browser' = NoBrowser
          /\ contextCount' = contextCount]_vars
  /\ [][\A p \in Callers :
          ((CallGetBrowser(p) \/ CallGetContext(p))
             /\ browser = NoBrowser /\ browserLaunchPromise = NoBrowser)
          => /\ didLaunch'[p]
             /\ browserLaunchPromise' = launchCount'
             /\ launchCount' = launchCount + 1
             /\ launchState'[launchCount'] = "pending"]_vars

\* the first launch rejected for a call that awaited it, and a later call
\* has started the second launch
FailedLaunchRecoversWitness ==
  /\ launchState[1] = "rejected"
  /\ launchState[2] = "pending"
  /\ browserLaunchPromise = 2
  /\ \E p, q \in Callers :
       /\ p # q
       /\ pc[p] = "rejected" /\ awaited[p] = 1
       /\ pc[q] = "awaitLaunch" /\ awaited[q] = 2 /\ didLaunch[q]

\* ------------------------------------------------------------------------
\* Properties of the context counter
\* ------------------------------------------------------------------------
\* C33: a launch that succeeds sets the context count to 0; a getContext()
\* call that obtained the browser adds exactly 1 to it; nothing else changes
\* it: not closeAll, not a failed launch, not the close of a stale browser,
\* not a getBrowser() call, whether it reuses the current browser or not
CounterFrame ==
  /\ [][LaunchSettled(TRUE) => contextCount' = 0]_vars
  /\ [][\A p \in Callers :
          (GetContextResume(p) /\ pc[p] = "returned")
            => contextCount' = contextCount + 1]_vars
  /\ [][contextCount' # contextCount =>
          \/ LaunchSettled(TRUE)
          \/ \E p \in Callers : GetContextResume(p) /\ pc[p] = "returned"]_vars
  /\ [][(\/ LaunchSettled(FALSE)
         \/ \E p \in Callers :
              \/ CallCloseAll(p) \/ CloseAllSettled(p, TRUE) \/ CloseAllSettled(p, FALSE)
              \/ CloseSettled(p, TRUE) \/ CloseSettled(p, FALSE)
              \/ CallGetBrowser(p) \/ GetBrowserDone(p)
              \/ (GetContextResume(p) /\ pc[p] = "rejected"))
          => contextCount' = contextCount]_vars

\* the first browser was rotated out at the threshold and one context has
\* been counted on the second one
CounterFrameWitness ==
  /\ closeCalled[1]
  /\ browser = 2
  /\ launchState[2] = "resolved"
  /\ contextCount = 1

\* ------------------------------------------------------------------------
\* Properties of closeAll and of the close of a stale browser
\* ------------------------------------------------------------------------
\* C34: closeAll() calls close() on the browser the pool holds; when it
\* resolves, whether that close succeeded or failed, the pool holds no
\* browser; a getBrowser() call made while the pool holds no browser awaits
\* a launch, its own or the pending one; and when the close of a stale
\* browser fails during a rotation, the call goes on to the launch as well
CloseAllCloses ==
  /\ [][\A p \in Callers :
          CallCloseAll(p) => (closeCalled'[browser] /\ stale'[p] = browser)]_vars
  /\ [][\A p \in Callers : \A closed \in BOOLEAN :
          CloseAllSettled(p, closed)
            => /\ closeCalled[stale[p]]
               /\ browser' = NoBrowser
               /\ pc'[p] = "idle"]_vars
  /\ [][\A p \in Callers :
          ((CallGetBrowser(p) \/ CallGetContext(p)) /\ browser = NoBrowser)
            => (pc'[p] \in {"awaitLaunch", "awaitShared"}
                /\ launchState'[awaited'[p]] = "pending")]_vars
  /\ [][\A p \in Callers :
          (pc[p] = "closing" /\ pc'[p] # "closing")
            => (pc'[p] \in {"awaitLaunch", "awaitShared"}
                /\ launchState'[awaited'[p]] = "pending")]_vars

\* closeAll has resolved although the close of the first browser failed (it
\* is still connected), and the next call has started the second launch
CloseAllClosesWitness ==
  /\ closeCalled[1] /\ connected[1]
  /\ browser = NoBrowser
  /\ launchState[2] = "pending"
  /\ \E p \in Callers :
       /\ pc[p] = "awaitLaunch" /\ didLaunch[p]
       /\ startBrowser[p] = NoBrowser
  /\ \A q \in Callers : pc[q] \notin {"closing", "closingAll"}

\* ------------------------------------------------------------------------
\* Properties of concurrent rotations
\* ------------------------------------------------------------------------
\* C35: when a getBrowser() call that was suspended in the close of a stale
\* browser resumes and clears this.browser, the browser the pool holds at
\* that moment has had close() called on it, so that no launched browser is
\* dropped unclosed (violated: a second call suspended in the close of the
\* same stale browser resumes after the first one's launch has resolved,
\* drops the new browser and launches another one)
NoLeakInRotation ==
  [][\A p \in Callers : \A closed \in BOOLEAN :
       CloseSettled(p, closed) => (browser # NoBrowser => closeCalled[browser])]_vars

\* ------------------------------------------------------------------------
\* Properties of the number of contexts of one browser
\* ------------------------------------------------------------------------
\* C36: no browser has more than MAX_CONTEXTS_PER_BROWSER contexts opened
\* on it (violated: getContext() calls that obtain the browser before any
\* of them has counted its context all pass the check of getBrowser)
ContextsWithinLimit ==
  \A b \in BrowserIds : contextsOpened[b] <= MAX_CONTEXTS_PER_BROWSER

\* ------------------------------------------------------------------------
\* Properties of concurrent execute calls
\* ------------------------------------------------------------------------
\* C37: once the usage record is loaded, the record in memory changes only
\* by the increment of a call that succeeded, so that after k successes it
\* counts k more than the record loaded; it is never replaced by a record
\* read from the file (violated: a call that started before the limiter was
\* initialized assigns the record it read when its read settles, whatever
\* has been counted since)
NoLostUpdates ==
  [][(initialized /\ monthlyUsage' # monthlyUsage)
       => \/ Restart
          \/ \E c \in Clients :
               /\ FnSettled(c, TRUE)
               /\ monthlyUsage' = [monthlyUsage EXCEPT !.count = @ + 1]]_vars

\* ------------------------------------------------------------------------
\* Properties of the reaper beside a live BrowserPool
\* ------------------------------------------------------------------------
\* C38: a regular sweep never terminates the process of the browser that
\* the pool of this process holds and that is connected, however long ago
\* that browser was launched: no sweep has sent SIGTERM to that process and
\* waits for it to exit.
ManagedBrowserSpared ==
  (browser # NoBrowser /\ connected[browser]) => gcVictim # BrowserPid(browser)

\* ------------------------------------------------------------------------
\* Properties of the calls started by extractContentForResults
\* ------------------------------------------------------------------------
\* C39: when extractContentForResults returns, every extractContent call
\* that the batch started has settled and holds no context of the pool,
\* also the calls of the items whose race the outer timer settled.
BatchLeavesNothingRunning ==
  bPc = "returned" =>
    \A i \in 1..Len(bItems) : bItems[i].call = "settled" /\ ~bItems[i].context

====
